---------------------------- MODULE Spec2Model ----------------------------
(***************************************************************************)
(* A model of cupidGPT: the SQLite repository (DatabaseManager), the       *)
(* pairing service (UserManager), the appointment and checklist managers,  *)
(* the confirmation workflow of the Telegram bot and the reminder service. *)
(*                                                                         *)
(* Tables are modelled as the rows they hold.  users is the sequence of    *)
(* user rows in insertion order, so that a row's internal id (INTEGER      *)
(* PRIMARY KEY) is its position; telegram ids are a different id space.    *)
(* SQL NULL is NULL.  Time is counted in ticks of MinutesPerTick minutes;  *)
(* datetime.now() and SQLite's datetime('now') both read the variable now  *)
(* (the process is taken to run with UTC as its local time zone).          *)
(***************************************************************************)
EXTENDS Integers, Sequences, FiniteSets, TLC

VARIABLES
    now,                \* the wall clock, in ticks
    users,              \* table users: Seq of [telegram_id, username, paired_user_id]
    appointments,       \* table appointments: id -> row
    nextAppointmentId,  \* AUTOINCREMENT counter of appointments
    checklists,         \* table checklists: id -> row
    nextChecklistId,    \* AUTOINCREMENT counter of checklists
    items,              \* table checklist_items: id -> row
    nextItemId,         \* AUTOINCREMENT counter of checklist_items
    user_data,          \* context.user_data of each Telegram user
    tasks,              \* _send_reminder tasks created and not yet finished
    sweeps,             \* number of sweeps run so far
    call,               \* the last query, patch or oracle call: arguments and result
    last                \* the last operation called and what it returned

vars == <<now, users, appointments, nextAppointmentId, checklists,
          nextChecklistId, items, nextItemId, user_data, tasks, sweeps, call,
          last>>

userVars  == <<users>>
apptVars  == <<appointments, nextAppointmentId>>
listVars  == <<checklists, nextChecklistId, items, nextItemId>>
botVars   == <<user_data, call>>
taskVars  == <<tasks, sweeps>>

-----------------------------------------------------------------------------
(* Bounds of the model *)

MaxUsers        == 3    \* Telegram users that ever talk to the bot
MaxTime         == 3    \* the clock stops at this tick
MaxAppointments == 2    \* appointment rows ever inserted
MaxChecklists   == 2    \* checklist rows ever inserted
MaxItems        == 2    \* checklist_items rows ever inserted
MaxTasks        == 2    \* _send_reminder tasks in flight at once
MaxSweeps       == 2    \* sweeps run
MinutesPerTick  == 30   \* length of a clock tick

(* Program constants *)

NULL               == 0    \* SQL NULL / Python None in an id column (ids start at 1)
ReminderMinutes    == 60   \* get_upcoming_appointments_for_reminders(60)

TgIds     == {100 + i : i \in 1..MaxUsers}
Usernames == {"ann", "bob"}
PairNames == Usernames \cup {"nobody"}
Times     == 0..MaxTime

\* The username Telegram reports for a user who keeps it fixed.
NameOf(t) == IF t = 101 THEN "ann" ELSE IF t = 102 THEN "bob" ELSE "cat"

-----------------------------------------------------------------------------
(* Results *)

Result(op, actor, target, ok, msg) ==
    [op |-> op, actor |-> actor, target |-> target, ok |-> ok, msg |-> msg]

NoResult == Result("none", NULL, NULL, TRUE, "")

\* a call of a function with its arguments and what it returned
Call(fn, args, result) == [fn |-> fn, args |-> args, result |-> result]

NoCall == Call("none", <<>>, <<>>)

-----------------------------------------------------------------------------
(* Repository: users *)

UserIds == 1..Len(users)

\* SELECT id FROM users WHERE telegram_id = ? ; NULL when there is no row
IdOfTg(t) ==
    IF \E i \in UserIds : users[i].telegram_id = t
    THEN CHOOSE i \in UserIds : users[i].telegram_id = t
    ELSE NULL

TgOfId(i) == IF i \in UserIds THEN users[i].telegram_id ELSE NULL

\* DatabaseManager.get_user_by_telegram_id: the row's id, NULL for None
get_user_by_telegram_id(t) == IdOfTg(t)

\* UserManager.is_user_registered
is_user_registered(t) == get_user_by_telegram_id(t) # NULL

\* UserManager.is_user_paired
is_user_paired(t) ==
    /\ get_user_by_telegram_id(t) # NULL
    /\ users[get_user_by_telegram_id(t)].paired_user_id # NULL

\* DatabaseManager.get_paired_user: users u1 JOIN users u2 ON u1.paired_user_id = u2.id;
\* the partner's telegram id, NULL for None
get_paired_user(t) ==
    IF IdOfTg(t) # NULL /\ users[IdOfTg(t)].paired_user_id \in UserIds
    THEN users[users[IdOfTg(t)].paired_user_id].telegram_id
    ELSE NULL

\* UserManager._find_user_by_username: the first row with that username
find_user_by_username(name) ==
    IF \E i \in UserIds : users[i].username = name
    THEN CHOOSE i \in UserIds :
            /\ users[i].username = name
            /\ \A j \in UserIds : users[j].username = name => i <= j
    ELSE NULL

\* an add_user that replaces the row of a known user by a fresh one (INSERT OR
\* REPLACE): the partner reference is lost
add_user_replaces_row(t, name) ==
    IF IdOfTg(t) = NULL
    THEN Append(users, [telegram_id |-> t, username |-> name, paired_user_id |-> NULL])
    ELSE [users EXCEPT ![IdOfTg(t)] =
             [telegram_id |-> t, username |-> name, paired_user_id |-> NULL]]

\* DatabaseManager.add_user: INSERT OR IGNORE, then UPDATE of the display fields
add_user(t, name) ==
    IF IdOfTg(t) = NULL
    THEN Append(users, [telegram_id |-> t, username |-> name, paired_user_id |-> NULL])
    ELSE [users EXCEPT ![IdOfTg(t)].username = name]

\* A pair_users that writes the first UPDATE only
db_pair_users_one_sided(t1, t2) ==
    IF IdOfTg(t1) # NULL /\ IdOfTg(t2) # NULL
    THEN [users EXCEPT ![IdOfTg(t1)].paired_user_id = IdOfTg(t2)]
    ELSE users

\* DatabaseManager.pair_users: FALSE when a user is missing, else both UPDATEs
db_pair_users_ok(t1, t2) == IdOfTg(t1) # NULL /\ IdOfTg(t2) # NULL

db_pair_users(t1, t2) ==
    IF db_pair_users_ok(t1, t2)
    THEN [i \in UserIds |->
            IF i = IdOfTg(t2) THEN [users[i] EXCEPT !.paired_user_id = IdOfTg(t1)]
            ELSE IF i = IdOfTg(t1) THEN [users[i] EXCEPT !.paired_user_id = IdOfTg(t2)]
            ELSE users[i]]
    ELSE users


-----------------------------------------------------------------------------
(* Pairing service: UserManager *)

\* A pair_users that does not check whether the partner is already paired
pair_users_message_no_partner_check(t, name) ==
    IF ~is_user_registered(t) THEN "not_registered"
    ELSE IF is_user_paired(t) THEN "already_paired"
    ELSE IF find_user_by_username(name) = NULL THEN "partner_not_found"
    ELSE IF t = TgOfId(find_user_by_username(name)) THEN "self_pair"
    ELSE "paired"

\* A pair_users that looks the partner up before it checks the requester's pairing
pair_users_message_lookup_first(t, name) ==
    IF ~is_user_registered(t) THEN "not_registered"
    ELSE IF find_user_by_username(name) = NULL THEN "partner_not_found"
    ELSE IF is_user_paired(t) THEN "already_paired"
    ELSE IF is_user_paired(TgOfId(find_user_by_username(name))) THEN "partner_already_paired"
    ELSE IF t = TgOfId(find_user_by_username(name)) THEN "self_pair"
    ELSE "paired"

\* UserManager.pair_users: the message of the first check that fails, in the
\* order the code makes them; "paired" when every check passes.
pair_users_message(t, name) ==
    IF ~is_user_registered(t) THEN "not_registered"
    ELSE IF is_user_paired(t) THEN "already_paired"
    ELSE IF find_user_by_username(name) = NULL THEN "partner_not_found"
    ELSE IF is_user_paired(TgOfId(find_user_by_username(name))) THEN "partner_already_paired"
    ELSE IF t = TgOfId(find_user_by_username(name)) THEN "self_pair"
    ELSE IF db_pair_users_ok(t, TgOfId(find_user_by_username(name))) THEN "paired"
    ELSE "db_failed"

\* An unpair_user that clears the caller's row only
unpair_user_one_sided(t) ==
    IF is_user_paired(t)
    THEN [users EXCEPT ![IdOfTg(t)].paired_user_id = NULL]
    ELSE users

\* a variant that unpairs every registered user, paired or not
unpair_user_ok_registered(t) == is_user_registered(t)

\* UserManager.unpair_user: clears the caller's row and the row it points to
unpair_user_ok(t) == is_user_paired(t)

unpair_user(t) ==
    IF unpair_user_ok(t)
    THEN [i \in UserIds |->
            IF i = IdOfTg(t) \/ i = users[IdOfTg(t)].paired_user_id
            THEN [users[i] EXCEPT !.paired_user_id = NULL]
            ELSE users[i]]
    ELSE users

-----------------------------------------------------------------------------
(* Operations on users *)

\* UserManager.register_user (bot /start)
RegisterUser(t, name) ==
    /\ users' = add_user(t, name)
    /\ last' = Result("register_user", t, NULL, TRUE, name)
    /\ UNCHANGED <<now, apptVars, listVars, botVars, taskVars>>

\* UserManager.pair_users (bot /pair @name); last.target is the user the name
\* resolves to, NULL when no row has that username
PairUsers(t, name) ==
    /\ users' = IF pair_users_message(t, name) = "paired"
                THEN db_pair_users(t, TgOfId(find_user_by_username(name)))
                ELSE users
    /\ last' = Result("pair_users", t, TgOfId(find_user_by_username(name)),
                      pair_users_message(t, name) = "paired",
                      pair_users_message(t, name))
    /\ UNCHANGED <<now, apptVars, listVars, botVars, taskVars>>

\* UserManager.unpair_user
UnpairUser(t) ==
    /\ users' = unpair_user(t)
    /\ last' = Result("unpair_user", t, get_paired_user(t), unpair_user_ok(t), "")
    /\ UNCHANGED <<now, apptVars, listVars, botVars, taskVars>>

\* DatabaseManager.pair_users called on the repository itself (tests/conftest.py)
DbPairUsers(t1, t2) ==
    /\ users' = db_pair_users(t1, t2)
    /\ last' = Result("db_pair_users", t1, t2, db_pair_users_ok(t1, t2), "")
    /\ UNCHANGED <<now, apptVars, listVars, botVars, taskVars>>

-----------------------------------------------------------------------------
(* Repository: appointments *)

AppointmentIds == DOMAIN appointments

\* A create_appointment that shares the row with nobody
AppointmentRow_unshared(title, description, appointment_date, location, t) ==
    [title            |-> title,
     description      |-> description,
     appointment_date |-> appointment_date,
     location         |-> location,
     created_by       |-> IdOfTg(t),
     shared_with      |-> NULL,
     reminder_sent    |-> FALSE]

\* the row DatabaseManager.create_appointment inserts: created_by is the
\* creator's id, shared_with the creator's paired_user_id at this moment
AppointmentRow(title, description, appointment_date, location, t) ==
    [title            |-> title,
     description      |-> description,
     appointment_date |-> appointment_date,
     location         |-> location,
     created_by       |-> IdOfTg(t),
     shared_with      |-> users[IdOfTg(t)].paired_user_id,
     reminder_sent    |-> FALSE]

\* a variant that hands out an id without looking the creator up
db_create_appointment_id_unknown_creator(t) == nextAppointmentId

\* DatabaseManager.create_appointment: the new id, NULL when the creator is unknown
db_create_appointment_id(t) == IF IdOfTg(t) # NULL THEN nextAppointmentId ELSE NULL

db_create_appointment(title, description, appointment_date, location, t) ==
    IF IdOfTg(t) # NULL
    THEN appointments @@
            (nextAppointmentId :>
                AppointmentRow(title, description, appointment_date, location, t))
    ELSE appointments

db_next_appointment_id(t) ==
    IF IdOfTg(t) # NULL THEN nextAppointmentId + 1 ELSE nextAppointmentId

\* the ids in S ordered by appointment_date, rows of equal date in id order
\* a variant that returns the rows in the order of their ids instead
OrderByDate_insertion_order(S) ==
    [k \in 1..Cardinality(S) |->
        CHOOSE i \in S : Cardinality({j \in S : j < i}) = k - 1]

RECURSIVE OrderByDate(_)
OrderByDate(S) ==
    IF S = {} THEN <<>>
    ELSE LET first == CHOOSE i \in S : \A j \in S :
                         \/ appointments[i].appointment_date < appointments[j].appointment_date
                         \/ /\ appointments[i].appointment_date = appointments[j].appointment_date
                            /\ i <= j
         IN  <<first>> \o OrderByDate(S \ {first})

\* A get_appointments that selects on the creator only
get_appointments_creator_only(t, upcoming_only) ==
    LET user_id == IdOfTg(t) IN
    IF user_id = NULL THEN <<>>
    ELSE OrderByDate({i \in AppointmentIds :
            /\ appointments[i].created_by = user_id
            /\ upcoming_only => appointments[i].appointment_date >= now})

\* DatabaseManager.get_appointments: the ids of the rows returned, in order
get_appointments(t, upcoming_only) ==
    LET user_id == IdOfTg(t) IN
    IF user_id = NULL THEN <<>>
    ELSE OrderByDate({i \in AppointmentIds :
            /\ \/ appointments[i].created_by = user_id
               \/ appointments[i].shared_with = user_id
            /\ upcoming_only => appointments[i].appointment_date >= now})

\* AppointmentManager.get_user_appointments: the same rows, decorated for display
get_user_appointments(t, upcoming_only) == get_appointments(t, upcoming_only)

\* a variant whose BETWEEN has no lower end: started appointments are returned
get_upcoming_appointments_for_reminders_no_lower_end(minutes_ahead) ==
    {i \in AppointmentIds :
        /\ ~appointments[i].reminder_sent
        /\ appointments[i].appointment_date * MinutesPerTick
              <= now * MinutesPerTick + minutes_ahead}

\* DatabaseManager.get_upcoming_appointments_for_reminders(minutes_ahead): the rows
\* not yet reminded whose date is BETWEEN now AND now + minutes_ahead
get_upcoming_appointments_for_reminders(minutes_ahead) ==
    {i \in AppointmentIds :
        /\ ~appointments[i].reminder_sent
        /\ appointments[i].appointment_date >= now
        /\ appointments[i].appointment_date * MinutesPerTick
              <= now * MinutesPerTick + minutes_ahead}

\* A mark_reminder_sent that flips the flag
mark_reminder_sent_flips(id) ==
    [i \in AppointmentIds |->
        IF i = id
        THEN [appointments[i] EXCEPT !.reminder_sent = ~appointments[i].reminder_sent]
        ELSE appointments[i]]

\* DatabaseManager.mark_reminder_sent: UPDATE ... SET reminder_sent = TRUE WHERE id = ?
mark_reminder_sent(id) ==
    [i \in AppointmentIds |->
        IF i = id THEN [appointments[i] EXCEPT !.reminder_sent = TRUE]
        ELSE appointments[i]]

\* DatabaseManager.get_appointment_by_id: NULL for None
get_appointment_by_id(id) == IF id \in AppointmentIds THEN id ELSE NULL

\* the columns a patch may write
\* a variant that lets the reminder flag be patched as well
PatchableFields_with_reminder_sent ==
    {"title", "description", "appointment_date", "location", "reminder_sent"}

\* the columns AppointmentManager.update_appointment accepts
PatchableFields == {"title", "description", "appointment_date", "location"}

\* a variant whose UPDATE has no WHERE clause: every row takes the patch
db_update_appointment_every_row(id, updates) ==
    [i \in AppointmentIds |->
        [f \in DOMAIN appointments[i] |->
            IF f \in PatchableFields /\ f \in DOMAIN updates
            THEN updates[f] ELSE appointments[i][f]]]

\* DatabaseManager.update_appointment: writes the patchable columns of the patch
db_update_appointment(id, updates) ==
    [i \in AppointmentIds |->
        IF i # id THEN appointments[i]
        ELSE [f \in DOMAIN appointments[i] |->
                IF f \in PatchableFields /\ f \in DOMAIN updates
                THEN updates[f] ELSE appointments[i][f]]]

\* DatabaseManager.delete_appointment: DELETE FROM appointments WHERE id = ?
db_delete_appointment(id) ==
    [i \in AppointmentIds \ {id} |-> appointments[i]]

-----------------------------------------------------------------------------
(* Extraction oracle: what the language model may answer *)

Titles       == {"t1"}
Descriptions == {"d1"}
Locations    == {"l1"}

\* LLMClient.extract_appointment_details: success with a title and a combined
\* date-time, or success = false
AppointmentExtractions ==
    {[success |-> FALSE, title |-> "", description |-> "",
      appointment_datetime |-> 0, location |-> ""]}
    \cup
    {[success |-> TRUE, title |-> ti, description |-> de,
      appointment_datetime |-> d, location |-> lo] :
        ti \in Titles, de \in Descriptions, d \in Times, lo \in Locations}

-----------------------------------------------------------------------------
(* Appointment manager *)

\* AppointmentManager.create_appointment_manual: the message returned
create_appointment_manual_message(appointment_date, t) ==
    IF appointment_date < now THEN "past"
    ELSE IF db_create_appointment_id(t) # NULL THEN "created"
    ELSE "not_saved"

\* AppointmentManager.create_appointment_from_text: the message returned
create_appointment_from_text_message(details, t) ==
    IF ~details.success THEN "not_understood"
    ELSE IF details.appointment_datetime < now THEN "past"
    ELSE IF db_create_appointment_id(t) # NULL THEN "created"
    ELSE "not_saved"

\* the time of day at clock value 0, in minutes after midnight: the clock
\* values of the model lie on both sides of a midnight
ClockEpoch == 23 * 60 + 30

\* timedelta(days=1), in minutes
MinutesPerDay == 24 * 60

\* the duration get_conflicting_appointments assumes for a stored appointment
ExistingDuration == 60

\* a clock value as minutes since the midnight before clock value 0
MinuteOf(d) == ClockEpoch + d * MinutesPerTick

\* appointment_date.replace(hour=0, minute=0, second=0, microsecond=0)
day_start(appointment_date) ==
    (MinuteOf(appointment_date) \div MinutesPerDay) * MinutesPerDay

\* DatabaseManager.get_appointments_in_range: the user's appointments that
\* start at or after start_date and before end_date
get_appointments_in_range(user_id, start_date, end_date) ==
    {i \in AppointmentIds :
        /\ \/ appointments[i].created_by = user_id
           \/ appointments[i].shared_with = user_id
        /\ start_date <= MinuteOf(appointments[i].appointment_date)
        /\ MinuteOf(appointments[i].appointment_date) < end_date}

\* a variant of the overlap test with closed intervals
Overlaps_closed(apt_start, start_time, end_time) ==
    apt_start <= end_time /\ apt_start + ExistingDuration >= start_time

\* the overlap test of get_conflicting_appointments
Overlaps(apt_start, start_time, end_time) ==
    apt_start < end_time /\ apt_start + ExistingDuration > start_time

\* AppointmentManager.get_conflicting_appointments: the ids of the rows returned
get_conflicting_appointments(t, appointment_date, duration_minutes) ==
    LET start_time == MinuteOf(appointment_date)
        end_time   == start_time + duration_minutes
    IN  IF get_user_by_telegram_id(t) = NULL THEN <<>>
        ELSE OrderByDate(
               {i \in get_appointments_in_range(IdOfTg(t),
                         day_start(appointment_date),
                         day_start(appointment_date) + MinutesPerDay) :
                   Overlaps(MinuteOf(appointments[i].appointment_date),
                            start_time, end_time)})

\* a variant that lets any registered user patch an appointment
update_appointment_message_no_permission_check(id, t, updates) ==
    IF get_appointment_by_id(id) = NULL THEN "not_found"
    ELSE IF get_user_by_telegram_id(t) = NULL THEN "user_not_found"
    ELSE IF DOMAIN updates \cap PatchableFields = {} THEN "no_valid_fields"
    ELSE "updated"

\* AppointmentManager.update_appointment: the message returned
update_appointment_message(id, t, updates) ==
    IF get_appointment_by_id(id) = NULL THEN "not_found"
    ELSE IF get_user_by_telegram_id(t) = NULL THEN "user_not_found"
    ELSE IF /\ appointments[id].created_by # IdOfTg(t)
            /\ appointments[id].shared_with # IdOfTg(t) THEN "no_permission"
    ELSE IF DOMAIN updates \cap PatchableFields = {} THEN "no_valid_fields"
    ELSE "updated"

\* a variant that lets the shared-with user delete as well
delete_appointment_message_shared_may_delete(id, t) ==
    IF get_appointment_by_id(id) = NULL THEN "not_found"
    ELSE IF get_user_by_telegram_id(t) = NULL THEN "user_not_found"
    ELSE IF /\ appointments[id].created_by # IdOfTg(t)
            /\ appointments[id].shared_with # IdOfTg(t) THEN "not_creator"
    ELSE "deleted"

\* AppointmentManager.delete_appointment: the message returned
delete_appointment_message(id, t) ==
    IF get_appointment_by_id(id) = NULL THEN "not_found"
    ELSE IF get_user_by_telegram_id(t) = NULL THEN "user_not_found"
    ELSE IF appointments[id].created_by # IdOfTg(t) THEN "not_creator"
    ELSE "deleted"

-----------------------------------------------------------------------------
(* Operations on appointments *)

\* the clock advances
Tick ==
    /\ now < MaxTime
    /\ now' = now + 1
    /\ UNCHANGED <<userVars, apptVars, listVars, botVars, taskVars, last>>

\* AppointmentManager.create_appointment_manual
CreateAppointmentManual(title, description, appointment_date, location, t) ==
    /\ nextAppointmentId <= MaxAppointments
    /\ LET msg == create_appointment_manual_message(appointment_date, t) IN
         /\ appointments' =
               IF msg = "created"
               THEN db_create_appointment(title, description, appointment_date, location, t)
               ELSE appointments
         /\ nextAppointmentId' =
               IF msg = "created" THEN db_next_appointment_id(t) ELSE nextAppointmentId
         /\ last' = Result("create_appointment_manual", t,
                           IF msg = "created" THEN nextAppointmentId ELSE NULL,
                           msg = "created", msg)
    /\ UNCHANGED <<now, userVars, listVars, botVars, taskVars>>

\* AppointmentManager.create_appointment_from_text, details being the oracle's answer
CreateAppointmentFromText(details, t) ==
    /\ nextAppointmentId <= MaxAppointments
    /\ LET msg == create_appointment_from_text_message(details, t) IN
         /\ appointments' =
               IF msg = "created"
               THEN db_create_appointment(details.title, details.description,
                        details.appointment_datetime, details.location, t)
               ELSE appointments
         /\ nextAppointmentId' =
               IF msg = "created" THEN db_next_appointment_id(t) ELSE nextAppointmentId
         /\ last' = Result("create_appointment_from_text", t,
                           IF msg = "created" THEN nextAppointmentId ELSE NULL,
                           msg = "created", msg)
    /\ UNCHANGED <<now, userVars, listVars, botVars, taskVars>>

\* AppointmentManager.get_conflicting_appointments
GetConflictingAppointments(t, appointment_date, duration_minutes) ==
    /\ call' = Call("get_conflicting_appointments",
                    <<t, appointment_date, duration_minutes>>,
                    get_conflicting_appointments(t, appointment_date, duration_minutes))
    /\ last' = Result("get_conflicting_appointments", t, NULL, TRUE, "listed")
    /\ UNCHANGED <<now, userVars, apptVars, listVars, user_data, taskVars>>

\* AppointmentManager.update_appointment
UpdateAppointment(id, t, updates) ==
    /\ appointments' =
          IF update_appointment_message(id, t, updates) = "updated"
          THEN db_update_appointment(id, updates) ELSE appointments
    /\ last' = Result("update_appointment", t, id,
                      update_appointment_message(id, t, updates) = "updated",
                      update_appointment_message(id, t, updates))
    /\ call' = Call("update_appointment", <<id, t, updates>>,
                    update_appointment_message(id, t, updates))
    /\ UNCHANGED <<now, userVars, nextAppointmentId, listVars, user_data, taskVars>>

\* AppointmentManager.delete_appointment
DeleteAppointment(id, t) ==
    /\ appointments' =
          IF delete_appointment_message(id, t) = "deleted"
          THEN db_delete_appointment(id) ELSE appointments
    /\ last' = Result("delete_appointment", t, id,
                      delete_appointment_message(id, t) = "deleted",
                      delete_appointment_message(id, t))
    /\ UNCHANGED <<now, userVars, nextAppointmentId, listVars, botVars, taskVars>>

-----------------------------------------------------------------------------
(* Repository: checklists and checklist items *)

ChecklistIds == DOMAIN checklists
ItemIds      == DOMAIN items

\* the row DatabaseManager.create_checklist inserts
ChecklistRow(title, description, t) ==
    [title       |-> title,
     description |-> description,
     created_by  |-> IdOfTg(t),
     shared_with |-> users[IdOfTg(t)].paired_user_id]

\* DatabaseManager.create_checklist: the new id, NULL when the creator is unknown
db_create_checklist_id(t) == IF IdOfTg(t) # NULL THEN nextChecklistId ELSE NULL

db_create_checklist(title, description, t) ==
    IF IdOfTg(t) # NULL
    THEN checklists @@ (nextChecklistId :> ChecklistRow(title, description, t))
    ELSE checklists

\* the row DatabaseManager.add_checklist_item inserts; completed_at is <<>> for
\* NULL and <<time>> for a timestamp
ItemRow(checklist_id, text) ==
    [checklist_id |-> checklist_id,
     text         |-> text,
     completed    |-> FALSE,
     completed_by |-> NULL,
     completed_at |-> <<>>]

\* DatabaseManager.add_checklist_item called for each text of texts in turn; the
\* connection does not enable foreign keys, so checklist_id is not checked
add_checklist_items(checklist_id, texts) ==
    items @@ [k \in nextItemId..(nextItemId + Len(texts) - 1) |->
                 ItemRow(checklist_id, texts[k - nextItemId + 1])]

\* DatabaseManager.toggle_checklist_item: FALSE when the user or the item is missing
toggle_checklist_item_ok(item_id, t) == IdOfTg(t) # NULL /\ item_id \in ItemIds

\* A toggle that keeps the audit fields when it clears completed
toggle_checklist_item_keeps_audit(item_id, t) ==
    IF toggle_checklist_item_ok(item_id, t)
    THEN [i \in ItemIds |->
            IF i # item_id THEN items[i]
            ELSE IF ~items[i].completed
                 THEN [items[i] EXCEPT !.completed = TRUE,
                                       !.completed_by = IdOfTg(t),
                                       !.completed_at = <<now>>]
                 ELSE [items[i] EXCEPT !.completed = FALSE]]
    ELSE items

toggle_checklist_item(item_id, t) ==
    IF toggle_checklist_item_ok(item_id, t)
    THEN [i \in ItemIds |->
            IF i # item_id THEN items[i]
            ELSE IF ~items[i].completed
                 THEN [items[i] EXCEPT !.completed = TRUE,
                                       !.completed_by = IdOfTg(t),
                                       !.completed_at = <<now>>]
                 ELSE [items[i] EXCEPT !.completed = FALSE,
                                       !.completed_by = NULL,
                                       !.completed_at = <<>>]]
    ELSE items

\* DatabaseManager.get_checklists: the ids of the checklists a user sees
get_checklists(t) ==
    LET user_id == IdOfTg(t) IN
    IF user_id = NULL THEN {}
    ELSE {c \in ChecklistIds :
            \/ checklists[c].created_by = user_id
            \/ checklists[c].shared_with = user_id}

\* DatabaseManager.get_checklist_items: the ids of the items of a checklist
get_checklist_items(checklist_id) ==
    {i \in ItemIds : items[i].checklist_id = checklist_id}

\* ChecklistManager.get_checklist_by_id: NULL for None
get_checklist_by_id(checklist_id) ==
    IF checklist_id \in ChecklistIds THEN checklist_id ELSE NULL

-----------------------------------------------------------------------------
(* Checklist manager *)

ItemTexts == {"milk", " eggs "}

\* str.strip() on the item texts of the model
Strip(text) == IF text = " eggs " THEN "eggs" ELSE text

StripAll(texts) == [k \in 1..Len(texts) |-> Strip(texts[k])]

\* LLMClient.extract_checklist_details: success with a title and cleaned items
\* (possibly none left after cleaning), or success = false
ChecklistExtractions ==
    {[success |-> FALSE, title |-> "", description |-> "", items |-> <<>>]}
    \cup
    {[success |-> TRUE, title |-> ti, description |-> de, items |-> its] :
        ti \in Titles, de \in Descriptions,
        its \in {<<>>, <<"eggs">>, <<"milk", "eggs">>}}

\* the texts of create_checklist_from_text for which add_checklist_item returned
\* True, failed being the positions of the texts whose INSERT raised sqlite3.Error
items_added(texts, failed) ==
    LET kept == (1..Len(texts)) \ failed IN
    [j \in 1..Cardinality(kept) |->
        texts[CHOOSE k \in kept : Cardinality({m \in kept : m < k}) = j - 1]]

\* a variant that reports success only when every item was inserted
create_checklist_from_text_message_all_or_nothing(details, t, failed) ==
    IF ~details.success THEN "not_understood"
    ELSE IF db_create_checklist_id(t) = NULL THEN "not_created"
    ELSE IF Len(items_added(details.items, failed)) < Len(details.items)
            \/ Len(details.items) = 0 THEN "no_items_added"
    ELSE "created"

\* ChecklistManager.create_checklist_from_text: the message returned
create_checklist_from_text_message(details, t, failed) ==
    IF ~details.success THEN "not_understood"
    ELSE IF db_create_checklist_id(t) = NULL THEN "not_created"
    ELSE IF Len(items_added(details.items, failed)) = 0 THEN "no_items_added"
    ELSE "created"

\* ChecklistManager.create_checklist_manual: the message returned
create_checklist_manual_message(texts, t) ==
    IF Len(texts) = 0 THEN "no_items"
    ELSE IF db_create_checklist_id(t) = NULL THEN "not_created"
    ELSE "created"

\* ChecklistManager.add_item_to_checklist: the message returned
add_item_to_checklist_message(checklist_id, t) ==
    IF get_checklist_by_id(checklist_id) = NULL THEN "not_found"
    ELSE IF get_user_by_telegram_id(t) = NULL THEN "user_not_found"
    ELSE IF /\ checklists[checklist_id].created_by # IdOfTg(t)
            /\ checklists[checklist_id].shared_with # IdOfTg(t) THEN "no_permission"
    ELSE "added"

\* a variant that lets every registered user remove an item
remove_item_from_checklist_message_no_permission_check(item_id, t) ==
    IF item_id \notin ItemIds \/ items[item_id].checklist_id \notin ChecklistIds
    THEN "not_found"
    ELSE IF get_user_by_telegram_id(t) = NULL THEN "user_not_found"
    ELSE "removed"

\* ChecklistManager.remove_item_from_checklist: the message returned; the item is
\* looked up through a JOIN with its checklist
remove_item_from_checklist_message(item_id, t) ==
    IF item_id \notin ItemIds \/ items[item_id].checklist_id \notin ChecklistIds
    THEN "not_found"
    ELSE IF get_user_by_telegram_id(t) = NULL THEN "user_not_found"
    ELSE IF /\ checklists[items[item_id].checklist_id].created_by # IdOfTg(t)
            /\ checklists[items[item_id].checklist_id].shared_with # IdOfTg(t)
         THEN "no_permission"
    ELSE "removed"

\* a variant that lets the shared-with user delete as well
delete_checklist_message_shared_may_delete(checklist_id, t) ==
    IF get_checklist_by_id(checklist_id) = NULL THEN "not_found"
    ELSE IF get_user_by_telegram_id(t) = NULL THEN "user_not_found"
    ELSE IF /\ checklists[checklist_id].created_by # IdOfTg(t)
            /\ checklists[checklist_id].shared_with # IdOfTg(t) THEN "not_creator"
    ELSE "deleted"

\* ChecklistManager.delete_checklist: the message returned
delete_checklist_message(checklist_id, t) ==
    IF get_checklist_by_id(checklist_id) = NULL THEN "not_found"
    ELSE IF get_user_by_telegram_id(t) = NULL THEN "user_not_found"
    ELSE IF checklists[checklist_id].created_by # IdOfTg(t) THEN "not_creator"
    ELSE "deleted"

-----------------------------------------------------------------------------
(* Operations on checklists *)

\* ChecklistManager.create_checklist_manual
CreateChecklistManual(title, description, texts, t) ==
    /\ nextChecklistId <= MaxChecklists
    /\ nextItemId + Len(texts) - 1 <= MaxItems
    /\ LET msg == create_checklist_manual_message(texts, t) IN
         /\ checklists' = IF msg = "created"
                          THEN db_create_checklist(title, description, t)
                          ELSE checklists
         /\ nextChecklistId' = IF msg = "created" THEN nextChecklistId + 1
                               ELSE nextChecklistId
         /\ items' = IF msg = "created"
                     THEN add_checklist_items(nextChecklistId, StripAll(texts))
                     ELSE items
         /\ nextItemId' = IF msg = "created" THEN nextItemId + Len(texts)
                          ELSE nextItemId
         /\ last' = Result("create_checklist_manual", t,
                           IF msg = "created" THEN nextChecklistId ELSE NULL,
                           msg = "created", msg)
    /\ UNCHANGED <<now, userVars, apptVars, botVars, taskVars>>

\* ChecklistManager.create_checklist_from_text, details being the oracle's answer
\* and failed the positions of the items whose INSERT fails; the checklist row
\* is inserted before the items are counted
CreateChecklistFromText(details, t, failed) ==
    /\ nextChecklistId <= MaxChecklists
    /\ nextItemId + Len(details.items) - 1 <= MaxItems
    /\ LET msg     == create_checklist_from_text_message(details, t, failed)
           written == msg \in {"created", "no_items_added"}
           added   == items_added(details.items, failed) IN
         /\ checklists' = IF written
                          THEN db_create_checklist(details.title, details.description, t)
                          ELSE checklists
         /\ nextChecklistId' = IF written THEN nextChecklistId + 1 ELSE nextChecklistId
         /\ items' = IF written
                     THEN add_checklist_items(nextChecklistId, added)
                     ELSE items
         /\ nextItemId' = IF written THEN nextItemId + Len(added) ELSE nextItemId
         /\ last' = Result("create_checklist_from_text", t,
                           IF msg = "created" THEN nextChecklistId ELSE NULL,
                           msg = "created", msg)
         /\ call' = Call("create_checklist_from_text", <<details, t, failed>>,
                         [success     |-> msg = "created",
                          items_count |-> IF msg = "created" THEN Len(added) ELSE 0])
    /\ UNCHANGED <<now, userVars, apptVars, user_data, taskVars>>

\* ChecklistManager.add_item_to_checklist
AddItemToChecklist(checklist_id, text, t) ==
    /\ nextItemId <= MaxItems
    /\ LET msg == add_item_to_checklist_message(checklist_id, t) IN
         /\ items' = IF msg = "added"
                     THEN add_checklist_items(checklist_id, <<Strip(text)>>)
                     ELSE items
         /\ nextItemId' = IF msg = "added" THEN nextItemId + 1 ELSE nextItemId
         /\ last' = Result("add_item_to_checklist", t, checklist_id, msg = "added", msg)
    /\ UNCHANGED <<now, userVars, apptVars, checklists, nextChecklistId,
                   botVars, taskVars>>

\* ChecklistManager.remove_item_from_checklist
RemoveItemFromChecklist(item_id, t) ==
    /\ LET msg == remove_item_from_checklist_message(item_id, t) IN
         /\ items' = IF msg = "removed"
                     THEN [i \in ItemIds \ {item_id} |-> items[i]]
                     ELSE items
         /\ last' = Result("remove_item_from_checklist", t, item_id,
                           msg = "removed", msg)
    /\ UNCHANGED <<now, userVars, apptVars, checklists, nextChecklistId,
                   nextItemId, botVars, taskVars>>

\* ChecklistManager.delete_checklist: DELETE FROM checklists WHERE id = ? on a
\* connection that does not enable foreign keys, so no item row is deleted
DeleteChecklist(checklist_id, t) ==
    /\ LET msg == delete_checklist_message(checklist_id, t) IN
         /\ checklists' = IF msg = "deleted"
                          THEN [c \in ChecklistIds \ {checklist_id} |-> checklists[c]]
                          ELSE checklists
         /\ last' = Result("delete_checklist", t, checklist_id, msg = "deleted", msg)
    /\ UNCHANGED <<now, userVars, apptVars, nextChecklistId, items, nextItemId,
                   botVars, taskVars>>

\* ChecklistManager.toggle_item (bot callback toggle_item:<id>)
ToggleItem(item_id, t) ==
    /\ items' = toggle_checklist_item(item_id, t)
    /\ last' = Result("toggle_item", t, item_id,
                      toggle_checklist_item_ok(item_id, t), "")
    /\ UNCHANGED <<now, userVars, apptVars, checklists, nextChecklistId,
                   nextItemId, botVars, taskVars>>

-----------------------------------------------------------------------------
(* Bot: the guided creation workflow kept in context.user_data *)

\* CupidGPTBot.debug_mode: DEBUG_MODE is read once at start and defaults to false
debug_mode == FALSE

Intents == {"appointment", "checklist", "unknown"}

\* CupidGPTBot.new_appointment_command
NewAppointmentCommand(t) ==
    /\ user_data' =
          IF ~debug_mode /\ ~is_user_paired(t) THEN user_data
          ELSE [user_data EXCEPT ![t].waiting_for = "appointment"]
    /\ last' = Result("new_appointment_command", t, NULL,
                      debug_mode \/ is_user_paired(t), "")
    /\ UNCHANGED <<now, userVars, apptVars, listVars, taskVars, call>>

\* CupidGPTBot.new_checklist_command
NewChecklistCommand(t) ==
    /\ user_data' =
          IF ~debug_mode /\ ~is_user_paired(t) THEN user_data
          ELSE [user_data EXCEPT ![t].waiting_for = "checklist"]
    /\ last' = Result("new_checklist_command", t, NULL,
                      debug_mode \/ is_user_paired(t), "")
    /\ UNCHANGED <<now, userVars, apptVars, listVars, taskVars, call>>

\* a variant in which a failed extraction empties the slot
pending_slot_emptied_on_failure(slot, details) ==
    IF details.success THEN <<details>> ELSE <<>>

\* the pending slot of a kind after _process_pending_input: a failed
\* extraction returns before the slot is written
pending_slot(slot, details) == IF details.success THEN <<details>> ELSE slot

\* a variant in which a new pending extraction drops the pending one of the
\* other kind
ProcessPendingInput_clears_other_kind(t, ad, cd) ==
    /\ user_data[t].waiting_for # ""
    /\ user_data' =
          IF user_data[t].waiting_for = "appointment"
          THEN [user_data EXCEPT
                  ![t].waiting_for = "",
                  ![t].pending_checklist = <<>>,
                  ![t].pending_appointment =
                      IF ad.success THEN <<ad>> ELSE user_data[t].pending_appointment]
          ELSE [user_data EXCEPT
                  ![t].waiting_for = "",
                  ![t].pending_appointment = <<>>,
                  ![t].pending_checklist =
                      IF cd.success THEN <<cd>> ELSE user_data[t].pending_checklist]
    /\ last' = Result("process_pending_input", t, NULL,
                      IF user_data[t].waiting_for = "appointment"
                      THEN ad.success ELSE cd.success,
                      user_data[t].waiting_for)
    /\ UNCHANGED <<now, userVars, apptVars, listVars, taskVars, call>>

\* CupidGPTBot._process_pending_input: the oracle's answer is kept for the
\* confirm callback, nothing is validated or written to the database
ProcessPendingInput(t, ad, cd) ==
    /\ user_data[t].waiting_for # ""
    /\ user_data' =
          IF user_data[t].waiting_for = "appointment"
          THEN [user_data EXCEPT
                  ![t].waiting_for = "",
                  ![t].pending_appointment =
                      pending_slot(user_data[t].pending_appointment, ad)]
          ELSE [user_data EXCEPT
                  ![t].waiting_for = "",
                  ![t].pending_checklist =
                      pending_slot(user_data[t].pending_checklist, cd)]
    /\ last' = Result("process_pending_input", t, NULL,
                      IF user_data[t].waiting_for = "appointment"
                      THEN ad.success ELSE cd.success,
                      user_data[t].waiting_for)
    /\ UNCHANGED <<now, userVars, apptVars, listVars, taskVars, call>>

\* CupidGPTBot.process_natural_language: the intent routes the text to a manager
ProcessNaturalLanguage(t, intent, ad, cd) ==
    /\ user_data[t].waiting_for = ""
    /\ \/ intent = "appointment" /\ CreateAppointmentFromText(ad, t)
       \/ intent = "checklist" /\ CreateChecklistFromText(cd, t, {})
       \/ /\ intent = "unknown"
          /\ last' = Result("process_natural_language", t, NULL, FALSE, "unknown")
          /\ UNCHANGED <<now, userVars, apptVars, listVars, botVars, taskVars>>

\* CupidGPTBot.handle_message for a text that is no menu entry or command
HandleMessage(t, intent, ad, cd) ==
    \/ ProcessPendingInput(t, ad, cd)
    \/ ProcessNaturalLanguage(t, intent, ad, cd)

\* CupidGPTBot._handle_confirm_callback, action "appointment"
ConfirmAppointment(t) ==
    /\ nextAppointmentId <= MaxAppointments
    /\ user_data' = [user_data EXCEPT ![t].pending_appointment = <<>>]
    /\ IF user_data[t].pending_appointment = <<>>
       THEN /\ last' = Result("confirm_appointment", t, NULL, FALSE, "expired")
            /\ UNCHANGED apptVars
       ELSE LET details == user_data[t].pending_appointment[1] IN
            /\ appointments' = db_create_appointment(details.title,
                                   details.description, details.appointment_datetime,
                                   details.location, t)
            /\ nextAppointmentId' = db_next_appointment_id(t)
            /\ last' = Result("confirm_appointment", t, db_create_appointment_id(t),
                              db_create_appointment_id(t) # NULL,
                              IF db_create_appointment_id(t) # NULL
                              THEN "created" ELSE "not_saved")
    /\ UNCHANGED <<now, userVars, listVars, taskVars, call>>

\* CupidGPTBot._handle_confirm_callback, action "checklist"
ConfirmChecklist(t) ==
    /\ nextChecklistId <= MaxChecklists
    /\ user_data' = [user_data EXCEPT ![t].pending_checklist = <<>>]
    /\ IF user_data[t].pending_checklist = <<>>
       THEN /\ last' = Result("confirm_checklist", t, NULL, FALSE, "expired")
            /\ UNCHANGED listVars
       ELSE LET details == user_data[t].pending_checklist[1]
                created == db_create_checklist_id(t) # NULL IN
            /\ nextItemId + Len(details.items) - 1 <= MaxItems
            /\ checklists' = db_create_checklist(details.title, details.description, t)
            /\ nextChecklistId' = IF created THEN nextChecklistId + 1
                                  ELSE nextChecklistId
            /\ items' = IF created
                        THEN add_checklist_items(nextChecklistId, details.items)
                        ELSE items
            /\ nextItemId' = IF created THEN nextItemId + Len(details.items)
                             ELSE nextItemId
            /\ last' = Result("confirm_checklist", t, db_create_checklist_id(t),
                              created, IF created THEN "created" ELSE "not_created")
    /\ UNCHANGED <<now, userVars, apptVars, taskVars, call>>

\* CupidGPTBot._handle_cancel_callback: pops pending_<action> and answers
\* "Creation cancelled" whether or not there was one
CancelCallback(t, action) ==
    /\ user_data' =
          IF action = "appointment"
          THEN [user_data EXCEPT ![t].pending_appointment = <<>>]
          ELSE [user_data EXCEPT ![t].pending_checklist = <<>>]
    /\ last' = Result(IF action = "appointment" THEN "cancel_appointment"
                      ELSE "cancel_checklist", t, NULL, TRUE, "cancelled")
    /\ UNCHANGED <<now, userVars, apptVars, listVars, taskVars, call>>

-----------------------------------------------------------------------------
(* Reminder service: a sweep spawns one send task per due appointment *)

\* a variant that reads the second recipient from the creator's pairing
ReminderTask_current_partner(id) ==
    [appointment         |-> id,
     creator_telegram_id |-> TgOfId(appointments[id].created_by),
     shared_telegram_id  |->
        IF users[appointments[id].created_by].paired_user_id = NULL THEN NULL
        ELSE TgOfId(users[appointments[id].created_by].paired_user_id),
     sweep               |-> sweeps + 1,
     pc                  |-> "creator"]

\* the snapshot of a due row a task works on: the sweep's SELECT joins the
\* creator's and the shared user's telegram ids
ReminderTask(id) ==
    [appointment         |-> id,
     creator_telegram_id |-> TgOfId(appointments[id].created_by),
     shared_telegram_id  |-> IF appointments[id].shared_with = NULL THEN NULL
                             ELSE TgOfId(appointments[id].shared_with),
     sweep               |-> sweeps + 1,
     pc                  |-> "creator"]

\* ReminderService._check_and_send_reminders: asyncio.create_task raises where no
\* event loop is running (the scheduler thread) and the sweep then spawns nothing
CheckAndSendReminders(running_loop) ==
    /\ sweeps < MaxSweeps
    /\ LET due == get_upcoming_appointments_for_reminders(ReminderMinutes) IN
         /\ Cardinality(tasks) + Cardinality(due) <= MaxTasks
         /\ tasks' = IF running_loop
                     THEN tasks \cup {ReminderTask(i) : i \in due}
                     ELSE tasks
         /\ last' = Result("check_and_send_reminders", NULL, NULL,
                           running_loop, "")
    /\ sweeps' = sweeps + 1
    /\ UNCHANGED <<now, userVars, apptVars, listVars, botVars>>

\* a variant that sends the second message whenever there is a shared user
SendsToShared_whenever_shared(task) == task.shared_telegram_id # NULL

\* whether a task sends a second message, to the shared user
SendsToShared(task) ==
    /\ task.shared_telegram_id # NULL
    /\ task.shared_telegram_id # task.creator_telegram_id

\* ReminderService._send_reminder up to the end of the first send_message: with
\* no second recipient the flag is marked in the same step
SendToCreator(task, delivered) ==
    /\ task \in tasks
    /\ task.pc = "creator"
    /\ IF SendsToShared(task)
       THEN /\ tasks' = (tasks \ {task}) \cup {[task EXCEPT !.pc = "shared"]}
            /\ UNCHANGED apptVars
       ELSE /\ tasks' = tasks \ {task}
            /\ appointments' = mark_reminder_sent(task.appointment)
            /\ UNCHANGED nextAppointmentId
    /\ last' = Result("send_to_creator", task.creator_telegram_id,
                      task.appointment, delivered, "")
    /\ UNCHANGED <<now, userVars, listVars, botVars, sweeps>>

\* a variant that marks the reminder sent only when the second send succeeded
SendToShared_marks_on_success(task, delivered) ==
    /\ task \in tasks
    /\ task.pc = "shared"
    /\ tasks' = tasks \ {task}
    /\ appointments' = IF delivered THEN mark_reminder_sent(task.appointment)
                       ELSE appointments
    /\ last' = Result("send_to_shared", task.shared_telegram_id,
                      task.appointment, delivered, "")
    /\ UNCHANGED <<now, userVars, nextAppointmentId, listVars, botVars, sweeps>>

\* ReminderService._send_reminder from the second send_message to its end
SendToShared(task, delivered) ==
    /\ task \in tasks
    /\ task.pc = "shared"
    /\ tasks' = tasks \ {task}
    /\ appointments' = mark_reminder_sent(task.appointment)
    /\ last' = Result("send_to_shared", task.shared_telegram_id,
                      task.appointment, delivered, "")
    /\ UNCHANGED <<now, userVars, nextAppointmentId, listVars, botVars, sweeps>>

-----------------------------------------------------------------------------
(* Initial state: an empty database, no pending input, no task *)

\* context.user_data of a user: waiting_for is "" when unset, a pending
\* extraction is <<>> when unset and <<details>> when set
EmptyUserData == [waiting_for |-> "", pending_appointment |-> <<>>,
                  pending_checklist |-> <<>>]

Init ==
    /\ now = 0
    /\ users = <<>>
    /\ appointments = <<>>
    /\ nextAppointmentId = 1
    /\ checklists = <<>>
    /\ nextChecklistId = 1
    /\ items = <<>>
    /\ nextItemId = 1
    /\ user_data = [t \in TgIds |-> EmptyUserData]
    /\ tasks = {}
    /\ sweeps = 0
    /\ call = NoCall
    /\ last = NoResult

-----------------------------------------------------------------------------
(* The pairing service alone: users who may change their username *)

NextPairing ==
    \/ \E t \in TgIds, name \in Usernames : RegisterUser(t, name)
    \/ \E t \in TgIds, name \in PairNames : PairUsers(t, name)
    \/ \E t \in TgIds : UnpairUser(t)

SpecPairing == Init /\ [][NextPairing]_vars

(* The repository's users table alone *)

NextRepository ==
    \/ \E t \in TgIds : RegisterUser(t, NameOf(t))
    \/ \E t1 \in TgIds, t2 \in TgIds : DbPairUsers(t1, t2)

SpecRepository == Init /\ [][NextRepository]_vars

(* Creating appointments: the manager's two entry points and the bot's guided
   workflow, with the clock advancing in between *)

\* the users of this scenario: a couple, one of whom creates appointments
Couple   == {101, 102}
Creators == {101}

NextCreate ==
    \/ \E t \in Couple : RegisterUser(t, NameOf(t))
    \/ \E t \in Creators, name \in Usernames : PairUsers(t, name)
    \/ Tick
    \/ \E t \in Creators, ti \in Titles, de \in Descriptions, d \in Times,
          lo \in Locations : CreateAppointmentManual(ti, de, d, lo, t)
    \/ \E t \in Creators, ad \in AppointmentExtractions :
          CreateAppointmentFromText(ad, t)
    \/ \E t \in Creators : NewAppointmentCommand(t)
    \/ \E t \in Creators, intent \in {"appointment", "unknown"},
          ad \in AppointmentExtractions, cd \in {cd \in ChecklistExtractions : ~cd.success} :
          HandleMessage(t, intent, ad, cd)
    \/ \E t \in Creators : ConfirmAppointment(t)
    \/ \E t \in Creators : CancelCallback(t, "appointment")

SpecCreate == Init /\ [][NextCreate]_vars

(* Sharing: records are created while pairings come and go *)

\* users start the bot in the order of their telegram ids
NextSharing ==
    \/ \E t \in TgIds : t = 101 + Len(users) /\ RegisterUser(t, NameOf(t))
    \/ \E t \in Creators, t2 \in TgIds : PairUsers(t, NameOf(t2))
    \/ \E t \in Creators : UnpairUser(t)
    \/ \E t \in Creators, ti \in Titles, de \in Descriptions, lo \in Locations :
          CreateAppointmentManual(ti, de, MaxTime, lo, t)
    \/ \E t \in Creators, ti \in Titles, de \in Descriptions :
          CreateChecklistManual(ti, de, <<"milk">>, t)

SpecSharing == Init /\ [][NextSharing]_vars

(* Listing: a couple's appointments as the clock advances *)

NextListing ==
    \/ \E t \in Couple : RegisterUser(t, NameOf(t))
    \/ \E t \in Creators, name \in Usernames : PairUsers(t, name)
    \/ Tick
    \/ \E t \in Creators, ti \in Titles, de \in Descriptions, d \in Times,
          lo \in Locations : CreateAppointmentManual(ti, de, d, lo, t)

SpecListing == Init /\ [][NextListing]_vars

(* Checklists: items are added and removed by their creator and toggled by
   either user of a couple *)

NextChecklist ==
    \/ \E t \in Couple : RegisterUser(t, NameOf(t))
    \/ \E t \in Creators, ti \in Titles, de \in Descriptions,
          texts \in {<<>>, <<" eggs ">>} : CreateChecklistManual(ti, de, texts, t)
    \/ \E t \in Creators,
          cd \in {cd \in ChecklistExtractions : cd.items \in {<<>>, <<"eggs">>}} :
          CreateChecklistFromText(cd, t, {})
    \/ \E c \in 1..MaxChecklists, t \in Creators : AddItemToChecklist(c, " eggs ", t)
    \/ \E i \in 1..MaxItems, t \in Creators : RemoveItemFromChecklist(i, t)
    \/ \E i \in 1..MaxItems, t \in Couple : ToggleItem(i, t)

SpecChecklist == Init /\ [][NextChecklist]_vars

(* Reminders: sweeps and send tasks run while one appointment at a time is
   created and patched and the couple pairs *)

\* a patch of every patchable column that also names a column that is not
Patches ==
    {[title |-> "t2", description |-> "d2", appointment_date |-> d,
      location |-> "l2", reminder_sent |-> FALSE] : d \in Times}

NextReminder ==
    \/ \E t \in Couple : RegisterUser(t, NameOf(t))
    \/ \E t \in Creators, name \in Usernames : PairUsers(t, name)
    \/ Tick
    \/ \E t \in Creators, ti \in Titles, de \in Descriptions, d \in Times,
          lo \in Locations :
          appointments = <<>> /\ CreateAppointmentManual(ti, de, d, lo, t)
    \/ \E id \in 1..MaxAppointments, t \in Creators, updates \in Patches :
          UpdateAppointment(id, t, updates)
    \/ \E running_loop \in BOOLEAN : CheckAndSendReminders(running_loop)
    \/ \E task \in tasks, delivered \in BOOLEAN : SendToCreator(task, delivered)
    \/ \E task \in tasks, delivered \in BOOLEAN : SendToShared(task, delivered)

SpecReminder == Init /\ [][NextReminder]_vars

(* Reminders against the clock: appointments are created strictly in the
   future, the sweep (every 5 minutes) runs in every tick of the clock and the
   tasks it spawns finish within the tick *)

NextDeadline ==
    \/ \E t \in Couple : RegisterUser(t, NameOf(t))
    \/ \E t \in Creators, name \in Usernames : PairUsers(t, name)
    \/ sweeps > now /\ tasks = {} /\ Tick
    \/ \E t \in Creators, ti \in Titles, de \in Descriptions, d \in Times,
          lo \in Locations :
          d > now /\ CreateAppointmentManual(ti, de, d, lo, t)
    \/ \E running_loop \in BOOLEAN :
          sweeps <= now /\ CheckAndSendReminders(running_loop)
    \/ \E task \in tasks, delivered \in BOOLEAN : SendToCreator(task, delivered)
    \/ \E task \in tasks, delivered \in BOOLEAN : SendToShared(task, delivered)

SpecDeadline == Init /\ [][NextDeadline]_vars

(* Permissions: three users, the first of whom creates appointments and pairs
   with one and then another; every user tries to patch and to delete *)

\* a patch of the title alone
TitlePatch == [title |-> "t2"]

NextPermission ==
    \/ \E t \in TgIds : t = 101 + Len(users) /\ RegisterUser(t, NameOf(t))
    \/ \E t \in Creators, t2 \in TgIds : PairUsers(t, NameOf(t2))
    \/ \E t \in Creators : UnpairUser(t)
    \/ \E t \in Creators, ti \in Titles, de \in Descriptions, lo \in Locations :
          CreateAppointmentManual(ti, de, MaxTime, lo, t)
    \/ \E id \in 1..MaxAppointments, t \in TgIds : UpdateAppointment(id, t, TitlePatch)
    \/ \E id \in 1..MaxAppointments, t \in TgIds : DeleteAppointment(id, t)

SpecPermission == Init /\ [][NextPermission]_vars

(* Access to checklists: three users, the first of whom creates and deletes
   checklists and pairs; every user toggles items and tries to delete *)

NextAccess ==
    \/ \E t \in TgIds : t = 101 + Len(users) /\ RegisterUser(t, NameOf(t))
    \/ \E t \in Creators, t2 \in TgIds : PairUsers(t, NameOf(t2))
    \/ \E t \in Creators, ti \in Titles, de \in Descriptions :
          CreateChecklistManual(ti, de, <<"milk">>, t)
    \/ \E i \in 1..MaxItems, t \in TgIds : ToggleItem(i, t)
    \/ \E c \in 1..MaxChecklists, t \in TgIds : DeleteChecklist(c, t)

SpecAccess == Init /\ [][NextAccess]_vars

(* The confirmation workflow: a paired user talks to the bot; texts are routed
   by handle_message, the buttons of a preview confirm or cancel *)

\* what the oracle answers in this scenario: no answer, or one of two date-times;
\* no answer, or a list of at most one item
PendingAppointments ==
    {ad \in AppointmentExtractions :
        ad.success => ad.appointment_datetime \in {MaxTime - 1, MaxTime}}
PendingChecklists ==
    {cd \in ChecklistExtractions : cd.success => Len(cd.items) <= 1}

NextPending ==
    \/ \E t \in TgIds : t = 101 + Len(users) /\ t \in Couple /\ RegisterUser(t, NameOf(t))
    \/ \E t \in Creators : PairUsers(t, "bob")
    \/ \E t \in Creators : NewAppointmentCommand(t)
    \/ \E t \in Creators : NewChecklistCommand(t)
    \/ \E t \in Creators, intent \in Intents, ad \in PendingAppointments,
          cd \in PendingChecklists : HandleMessage(t, intent, ad, cd)
    \/ \E t \in Creators : ConfirmAppointment(t)
    \/ \E t \in Creators : ConfirmChecklist(t)
    \/ \E t \in Creators, action \in {"appointment", "checklist"} :
          CancelCallback(t, action)

SpecPending == Init /\ [][NextPending]_vars

(* The oracle: LLMClient turns the model's response into extraction details *)

MaxChars        == 3   \* longest item text in a model response
MaxItemsPerList == 2   \* most items in a model response

\* what LLMClient gets back from the model: the call raises (api_error), the
\* text is not JSON (bad_json), the JSON is not an object (not_object), or it
\* is an object; its "success" is true, false or absent
ResponseKinds   == {"api_error", "bad_json", "not_object", "object"}
SuccessValues   == {"true", "false", "absent"}
ResponseErrors  == {"null", "reported"}

\* "date" of a response: <<>> when the key is absent, else year, month, day as
\* written in YYYY-MM-DD
ResponseDates ==
    {<<>>} \cup ({2024, 2025} \X {2, 12, 13} \X {0, 28, 29, 30, 31, 32})

\* "time" of a response: <<>> when the key is absent, <<NULL>> for a JSON null
\* or a text that is not HH:MM, else hour and minute
ResponseTimes ==
    {<<>>, <<NULL>>} \cup ({0, 23, 24} \X {0, 59, 60})

AppointmentResponses ==
    [kind : ResponseKinds \ {"object"}, success : {"absent"}, error : {"null"},
     date : {<<>>}, time : {<<>>}]
    \cup [kind : {"object"}, success : SuccessValues, error : ResponseErrors,
          date : ResponseDates, time : ResponseTimes]

\* the number of days of a month of the proleptic Gregorian calendar
DaysInMonth(year, month) ==
    IF month = 2
    THEN (IF year % 4 = 0 /\ (year % 100 # 0 \/ year % 400 = 0) THEN 29 ELSE 28)
    ELSE IF month \in {4, 6, 9, 11} THEN 30 ELSE 31

\* result.get('time', '12:00')
time_str(response) == IF response.time = <<>> THEN <<12, 0>> ELSE response.time

\* a variant of strptime that accepts any day from 1 to 31 in every month
strptime_any_day(date, time) ==
    /\ Len(date) = 3 /\ Len(time) = 2
    /\ date[2] \in 1..12
    /\ date[3] \in 1..31
    /\ time[1] \in 0..23
    /\ time[2] \in 0..59

\* datetime.strptime(f"{date_str} {time_str}", "%Y-%m-%d %H:%M") returns a
\* datetime; it raises ValueError otherwise
strptime(date, time) ==
    /\ Len(date) = 3 /\ Len(time) = 2
    /\ date[1] \in 1..9999
    /\ date[2] \in 1..12
    /\ date[3] \in 1..DaysInMonth(date[1], date[2])
    /\ time[1] \in 0..23
    /\ time[2] \in 0..59

\* datetime.isoformat(): YYYY-MM-DDTHH:MM:SS, the seconds being 0
isoformat(date, time) == <<date[1], date[2], date[3], time[1], time[2], 0>>

\* what the body of a method hands to its caller: a value or an exception
Returned(success, error, payload) ==
    [raised |-> FALSE, success |-> success, error |-> error, payload |-> payload]
Raised(exception) ==
    [raised |-> TRUE, success |-> "absent", error |-> exception, payload |-> <<>>]

\* the statements of extract_appointment_details inside its try block
extract_appointment_details_body(response) ==
    IF response.kind # "object" THEN Raised(response.kind)
    ELSE IF response.success = "true"
    THEN IF strptime(response.date, time_str(response))
         THEN Returned("true", response.error,
                       isoformat(response.date, time_str(response)))
         ELSE Returned("false", "invalid_date_time", <<>>)
    ELSE Returned(response.success, response.error, <<>>)

\* LLMClient.extract_appointment_details: the body, and the except clause that
\* turns any exception into {"success": False, "error": ...}
extract_appointment_details(response) ==
    LET result == extract_appointment_details_body(response) IN
    IF result.raised THEN Returned("false", "failed_to_process", <<>>)
    ELSE result

\* the characters of an item text: a letter, a blank, a punctuation mark
Chars       == {"a", " ", "."}
Whitespace  == {" "}
Punctuation == {".", ",", ";", ":"}

RECURSIVE str_rstrip(_, _)
\* str.rstrip(chars): the text without its trailing characters of chars
str_rstrip(text, chars) ==
    IF text # <<>> /\ text[Len(text)] \in chars
    THEN str_rstrip(SubSeq(text, 1, Len(text) - 1), chars)
    ELSE text

RECURSIVE str_lstrip(_, _)
\* str.lstrip(chars): the text without its leading characters of chars
str_lstrip(text, chars) ==
    IF text # <<>> /\ text[1] \in chars
    THEN str_lstrip(Tail(text), chars)
    ELSE text

\* str.strip(): the text without leading and trailing whitespace
str_strip(text) == str_rstrip(str_lstrip(text, Whitespace), Whitespace)

\* item.strip().rstrip('.,;:')
cleaned_item(item) == str_rstrip(str_strip(item), Punctuation)

\* the loop that keeps the cleaned items that are not empty
cleaned_items(its) == SelectSeq([k \in 1..Len(its) |-> cleaned_item(its[k])],
                                LAMBDA text : text # <<>>)

Texts == UNION {[1..n -> Chars] : n \in 0..MaxChars}

ResponseItems == UNION {[1..n -> Texts] : n \in 0..MaxItemsPerList}

ChecklistResponses ==
    [kind : ResponseKinds \ {"object"}, success : {"absent"}, error : {"null"},
     items : {<<>>}]
    \cup [kind : {"object"}, success : SuccessValues, error : {"null"},
          items : ResponseItems]

\* the statements of extract_checklist_details inside its try block
extract_checklist_details_body(response) ==
    IF response.kind # "object" THEN Raised(response.kind)
    ELSE IF response.success = "true"
    THEN IF response.items = <<>>
         THEN Returned("false", "no_items_found", response.items)
         ELSE Returned("true", response.error, cleaned_items(response.items))
    ELSE Returned(response.success, response.error, response.items)

\* LLMClient.extract_checklist_details: the body, and the except clause that
\* turns any exception into {"success": False, "error": ...}
extract_checklist_details(response) ==
    LET result == extract_checklist_details_body(response) IN
    IF result.raised THEN Returned("false", "failed_to_process", <<>>)
    ELSE result

\* the state in which nothing has happened yet but the model's answer
InitResponse(fn, responses) ==
    /\ now = 0
    /\ users = <<>>
    /\ appointments = <<>>
    /\ nextAppointmentId = 1
    /\ checklists = <<>>
    /\ nextChecklistId = 1
    /\ items = <<>>
    /\ nextItemId = 1
    /\ user_data = [t \in TgIds |-> EmptyUserData]
    /\ tasks = {}
    /\ sweeps = 0
    /\ call \in {Call(fn, response, <<>>) : response \in responses}
    /\ last = NoResult

\* LLMClient.extract_appointment_details on the model's answer
ExtractAppointmentDetails ==
    /\ call.fn = "generate_content_async"
    /\ call' = Call("extract_appointment_details", call.args,
                    extract_appointment_details(call.args))
    /\ last' = Result("extract_appointment_details", NULL, NULL,
                      extract_appointment_details(call.args).success = "true",
                      extract_appointment_details(call.args).error)
    /\ UNCHANGED <<now, userVars, apptVars, listVars, user_data, taskVars>>

\* LLMClient.extract_checklist_details on the model's answer
ExtractChecklistDetails ==
    /\ call.fn = "generate_content_async"
    /\ call' = Call("extract_checklist_details", call.args,
                    extract_checklist_details(call.args))
    /\ last' = Result("extract_checklist_details", NULL, NULL,
                      extract_checklist_details(call.args).success = "true",
                      extract_checklist_details(call.args).error)
    /\ UNCHANGED <<now, userVars, apptVars, listVars, user_data, taskVars>>

InitAppointmentOracle == InitResponse("generate_content_async", AppointmentResponses)

NextAppointmentOracle == ExtractAppointmentDetails

SpecAppointmentOracle == InitAppointmentOracle /\ [][NextAppointmentOracle]_vars

InitChecklistOracle == InitResponse("generate_content_async", ChecklistResponses)

NextChecklistOracle == ExtractChecklistDetails

SpecChecklistOracle == InitChecklistOracle /\ [][NextChecklistOracle]_vars

(* Exceptions inside the managers: every method body is one try block *)

\* the methods whose handler returns {'success': False, 'message': 'An error
\* occurred while ...'}
DictOperations ==
    {"create_appointment_from_text", "create_appointment_manual",
     "update_appointment", "delete_appointment",
     "create_checklist_from_text", "create_checklist_manual",
     "add_item_to_checklist", "remove_item_from_checklist", "delete_checklist"}

\* the methods whose handler returns []
ListOperations ==
    {"get_user_appointments", "get_appointments_for_date",
     "get_conflicting_appointments", "get_user_checklists", "get_checklist_items"}

\* the methods whose handler returns None
ByIdOperations == {"get_appointment_by_id", "get_checklist_by_id"}

\* the methods whose handler returns an 'Error ...' text
TextOperations == {"export_appointments", "get_checklist_summary", "export_checklist"}

ManagerOperations ==
    DictOperations \cup ListOperations \cup ByIdOperations \cup TextOperations
        \cup {"toggle_item", "get_completion_stats"}

\* what can be raised inside a method: by the oracle, by sqlite3, by a call of
\* a repository method that does not exist, by a lookup in a row
Exceptions == {"RuntimeError", "sqlite3.OperationalError", "AttributeError", "KeyError"}

\* the methods that call the oracle
OracleOperations == {"create_appointment_from_text", "create_checklist_from_text"}

ReturnValue(kind, success, message) ==
    [raised |-> FALSE, kind |-> kind, success |-> success, message |-> message]

RaisedException(exception) ==
    [raised |-> TRUE, kind |-> "exception", success |-> "absent", message |-> exception]

\* the return statement of the method's except clause
except_return(op) ==
    IF op \in DictOperations THEN ReturnValue("dict", "false", "an_error_occurred")
    ELSE IF op \in ListOperations THEN ReturnValue("list", "absent", "empty")
    ELSE IF op \in ByIdOperations THEN ReturnValue("none", "absent", "none")
    ELSE IF op \in TextOperations THEN ReturnValue("text", "absent", "error_text")
    ELSE IF op = "toggle_item" THEN ReturnValue("bool", "false", "false")
    ELSE ReturnValue("stats", "absent", "zeros")

\* a variant whose handlers catch sqlite3.Error only
try_except_sqlite3_Error(op, outcome) ==
    IF outcome.raised /\ outcome.message = "sqlite3.OperationalError"
    THEN except_return(op)
    ELSE outcome

\* try: <body> except Exception: a body that raises gives the handler's value
try_except_Exception(op, outcome) ==
    IF outcome.raised THEN except_return(op) ELSE outcome

\* a manager method in whose body a call raises
ManagerOperationRaises(op, t, exception) ==
    /\ exception = "RuntimeError" => op \in OracleOperations
    /\ call' = Call(op, <<t, exception>>,
                    try_except_Exception(op, RaisedException(exception)))
    /\ last' = Result(op, t, NULL, FALSE, "raised_inside")
    /\ UNCHANGED <<now, userVars, apptVars, listVars, user_data, taskVars>>

NextFailure ==
    \/ \E t \in Couple : t = 101 + Len(users) /\ RegisterUser(t, NameOf(t))
    \/ \E t \in Creators, ti \in Titles, de \in Descriptions, lo \in Locations :
          CreateAppointmentManual(ti, de, MaxTime, lo, t)
    \/ \E op \in ManagerOperations, t \in Couple, exception \in Exceptions :
          ManagerOperationRaises(op, t, exception)

SpecFailure == Init /\ [][NextFailure]_vars

(* Recipients: reminders while the creator's pairing changes *)

\* users start the bot in the order of their telegram ids; the creator pairs
\* through UserManager, or with themselves through the repository, which
\* accepts that; the appointment is due within the hour
NextRecipients ==
    \/ \E t \in TgIds : t = 101 + Len(users) /\ RegisterUser(t, NameOf(t))
    \/ \E t \in Creators, t2 \in TgIds : PairUsers(t, NameOf(t2))
    \/ \E t \in Creators : UnpairUser(t)
    \/ \E t \in Creators : DbPairUsers(t, t)
    \/ \E t \in Creators, ti \in Titles, de \in Descriptions, lo \in Locations :
          appointments = <<>> /\ CreateAppointmentManual(ti, de, 1, lo, t)
    \/ \E running_loop \in BOOLEAN : CheckAndSendReminders(running_loop)
    \/ \E task \in tasks, delivered \in BOOLEAN : SendToCreator(task, delivered)
    \/ \E task \in tasks, delivered \in BOOLEAN : SendToShared(task, delivered)

SpecRecipients == Init /\ [][NextRecipients]_vars

(* Item failures: checklists are created from text while single INSERTs of
   items fail *)

NextItemFailures ==
    \/ \E t \in Couple : t = 101 + Len(users) /\ RegisterUser(t, NameOf(t))
    \/ \E t \in Creators : PairUsers(t, "bob")
    \/ \E t \in Creators, cd \in ChecklistExtractions,
          failed \in SUBSET (1..MaxItems) :
          failed \subseteq 1..Len(cd.items) /\ CreateChecklistFromText(cd, t, failed)
    \/ \E i \in 1..MaxItems, t \in Couple : RemoveItemFromChecklist(i, t)

SpecItemFailures == Init /\ [][NextItemFailures]_vars

(* Item access: every user tries to add, remove and delete while the creator's
   pairing changes *)

NextItemAccess ==
    \/ \E t \in TgIds : t = 101 + Len(users) /\ RegisterUser(t, NameOf(t))
    \/ \E t \in Creators, t2 \in TgIds : PairUsers(t, NameOf(t2))
    \/ \E t \in Creators : UnpairUser(t)
    \/ \E t \in Creators, ti \in Titles, de \in Descriptions :
          CreateChecklistManual(ti, de, <<"milk">>, t)
    \/ \E c \in 1..MaxChecklists, t \in TgIds : AddItemToChecklist(c, "milk", t)
    \/ \E i \in 1..MaxItems, t \in TgIds : RemoveItemFromChecklist(i, t)
    \/ \E c \in 1..MaxChecklists, t \in TgIds : DeleteChecklist(c, t)

SpecItemAccess == Init /\ [][NextItemAccess]_vars

(* Conflicts: a couple's appointments around midnight are checked for overlap *)

\* the durations a candidate appointment is checked with, in minutes
Durations == {MinutesPerTick, 2 * MinutesPerTick}

NextConflicts ==
    \/ \E t \in Couple : t = 101 + Len(users) /\ RegisterUser(t, NameOf(t))
    \/ \E t \in Creators : PairUsers(t, "bob")
    \/ \E t \in Couple, ti \in Titles, de \in Descriptions, d \in Times,
          lo \in Locations : CreateAppointmentManual(ti, de, d, lo, t)
    \/ \E t \in TgIds, d \in Times, duration \in Durations :
          GetConflictingAppointments(t, d, duration)

SpecConflicts == Init /\ [][NextConflicts]_vars

(* Patching: a couple's appointments are updated field by field *)

\* the keyword arguments update_appointment is called with: one patchable
\* field, several, none, no patchable one, and a mix
PatchArguments ==
    {[title |-> "t2"],
     [title |-> "t2", description |-> "d2"],
     [appointment_date |-> MaxTime, location |-> "l2"],
     [reminder_sent |-> TRUE, created_by |-> 2],
     [title |-> "t2", created_by |-> 2, shared_with |-> NULL, reminder_sent |-> TRUE],
     <<>>}

NextPatch ==
    \/ \E t \in Couple : t = 101 + Len(users) /\ RegisterUser(t, NameOf(t))
    \/ \E t \in Creators : PairUsers(t, "bob")
    \/ \E t \in Creators, ti \in Titles, de \in Descriptions, lo \in Locations :
          CreateAppointmentManual(ti, de, MaxTime - 1, lo, t)
    \/ \E id \in 1..MaxAppointments, t \in TgIds, updates \in PatchArguments :
          UpdateAppointment(id, t, updates)

SpecPatch == Init /\ [][NextPatch]_vars

-----------------------------------------------------------------------------
(* Properties: pairing *)

Registered(t) == \E i \in UserIds : users[i].telegram_id = t

\* the partner reference (an internal id) of the user with telegram id t
PartnerRef(t) == IF Registered(t) THEN users[IdOfTg(t)].paired_user_id ELSE NULL

HasPartner(t) == PartnerRef(t) # NULL

\* the same reference read from a users table us
PartnerRefIn(us, t) ==
    IF \E i \in 1..Len(us) : us[i].telegram_id = t
    THEN us[CHOOSE i \in 1..Len(us) : us[i].telegram_id = t].paired_user_id
    ELSE NULL

\* C3: after any sequence of register_user, pair_users and unpair_user calls of
\* the UserManager the partner relation is symmetric and irreflexive (so nobody
\* is the partner of two users), and right after a successful pairing of A with
\* B get_paired_user(A) is B and get_paired_user(B) is A.
C3_PairingSymmetric ==
    /\ \A i \in UserIds :
          users[i].paired_user_id # NULL =>
             /\ users[i].paired_user_id \in UserIds
             /\ users[i].paired_user_id # i
             /\ users[users[i].paired_user_id].paired_user_id = i
    /\ (last.op = "pair_users" /\ last.ok) =>
          /\ last.target # last.actor
          /\ get_paired_user(last.actor) = last.target
          /\ get_paired_user(last.target) = last.actor

\* a pairing has just succeeded while a third user is registered
C3_Witness ==
    /\ last.op = "pair_users" /\ last.ok
    /\ Len(users) = 3
    /\ HasPartner(last.actor) /\ HasPartner(last.target)

\* C4: while A is paired, a pairing request from A fails whoever it names, and
\* a request from an unpaired user that names A fails; neither changes any
\* partner reference.
C4_PairedUsersStayPaired ==
    [][ last'.op = "pair_users" =>
          /\ HasPartner(last'.actor) => (~last'.ok /\ users' = users)
          /\ (last'.target # NULL /\ HasPartner(last'.target)) =>
                (~last'.ok /\ users' = users) ]_vars

\* an unpaired, registered user has just named a paired user and was refused
C4_Witness ==
    /\ last.op = "pair_users" /\ ~last.ok
    /\ Registered(last.actor) /\ ~HasPartner(last.actor)
    /\ last.target # NULL /\ last.target # last.actor /\ HasPartner(last.target)

\* C5 as stated: the repository's pair_users refuses, and changes nothing, when
\* the two users are the same or one of them already has a partner.
C5_RepositoryRejects ==
    [][ (/\ last'.op = "db_pair_users"
         /\ \/ last'.actor = last'.target
            \/ HasPartner(last'.actor)
            \/ HasPartner(last'.target))
        => (~last'.ok /\ users' = users) ]_vars

\* C5 as amended: the repository's pair_users refuses, and changes nothing,
\* exactly when one of the two users is not registered; otherwise it points
\* each of the two rows at the other, whatever they pointed at before, and
\* leaves every other row alone.
C5_RepositoryPairsRegistered ==
    [][ last'.op = "db_pair_users" =>
          IF Registered(last'.actor) /\ Registered(last'.target)
          THEN /\ last'.ok
               /\ Len(users') = Len(users)
               /\ PartnerRefIn(users', last'.actor) = IdOfTg(last'.target)
               /\ PartnerRefIn(users', last'.target) = IdOfTg(last'.actor)
               /\ \A i \in UserIds :
                     i \notin {IdOfTg(last'.actor), IdOfTg(last'.target)}
                        => users'[i] = users[i]
          ELSE ~last'.ok /\ users' = users ]_vars

\* the repository has paired a user who already had another partner
C5_Witness ==
    /\ last.op = "db_pair_users" /\ last.ok
    /\ last.actor # last.target
    /\ \E i \in UserIds :
          /\ users[i].paired_user_id = IdOfTg(last.actor)
          /\ users[i].telegram_id # last.target

\* C6: pair_users reports the first failing check in the order requester
\* registered, requester unpaired, partner found, partner unpaired, partner
\* differs from requester, and writes a pairing only when all five pass.
C6_CheckOrder ==
    [][ last'.op = "pair_users" =>
          /\ last'.msg =
               IF ~Registered(last'.actor) THEN "not_registered"
               ELSE IF HasPartner(last'.actor) THEN "already_paired"
               ELSE IF last'.target = NULL THEN "partner_not_found"
               ELSE IF HasPartner(last'.target) THEN "partner_already_paired"
               ELSE IF last'.target = last'.actor THEN "self_pair"
               ELSE "paired"
          /\ last'.ok <=> (last'.msg = "paired")
          /\ users' # users => last'.ok ]_vars

\* a paired requester named an unknown username and was told "already paired"
C6_Witness ==
    /\ last.op = "pair_users"
    /\ HasPartner(last.actor)
    /\ last.target = NULL
    /\ last.msg = "already_paired"

-----------------------------------------------------------------------------
(* Properties: appointment dates *)

\* the appointment ids a step inserts
Inserted == (DOMAIN appointments') \ (DOMAIN appointments)

\* C1: every appointment persisted by create_appointment_manual or
\* create_appointment_from_text has a date-time strictly later than the clock at
\* creation; a call whose date-time equals the clock stores nothing
C1_ManagerStoresStrictlyFuture ==
    [][\A i \in Inserted :
          last'.op \in {"create_appointment_manual", "create_appointment_from_text"}
             => appointments'[i].appointment_date > now]_vars

\* C2: every appointment row had a date-time strictly in the future at the
\* moment it was inserted, whichever path inserted it, the confirm callback
\* included
C2_InsertedStrictlyFuture ==
    [][\A i \in Inserted : appointments'[i].appointment_date > now]_vars

-----------------------------------------------------------------------------
(* Properties: sharing *)

\* the checklist ids a step inserts
InsertedChecklists == (DOMAIN checklists') \ (DOMAIN checklists)

\* the ids of the rows a listing returns
Listed(l) == {l[k] : k \in 1..Len(l)}

\* the user a record is shared with is neither its creator's current partner
\* nor nobody: the creator has been paired anew since
SharedWithFormerPartner(row) ==
    /\ row.shared_with # NULL
    /\ users[row.created_by].paired_user_id \notin {NULL, row.shared_with}

\* the user a record is shared with sees it in their list (an appointment as
\* long as it is not in the past); a user who is neither that user nor the
\* creator does not, whoever the creator is paired with now
SharedRecordsVisible ==
    \A u \in DOMAIN users :
        LET listed == Listed(get_user_appointments(TgOfId(u), TRUE))
            lists  == get_checklists(TgOfId(u))
        IN  /\ \A i \in DOMAIN appointments :
                  LET row == appointments[i] IN
                  /\ u = row.shared_with /\ row.appointment_date >= now
                        => i \in listed
                  /\ u \notin {row.shared_with, row.created_by} => i \notin listed
            /\ \A c \in DOMAIN checklists :
                  LET row == checklists[c] IN
                  /\ u = row.shared_with => c \in lists
                  /\ u \notin {row.shared_with, row.created_by} => c \notin lists

\* C7: a record's shared-with is its creator's partner at the moment of the
\* insert and no later step changes it (nor its creator); the user it names sees
\* the record in their list and a later partner of the creator does not
C7_SharingSnapshot ==
    /\ [][
          /\ \A i \in Inserted :
                appointments'[i].shared_with =
                   users[appointments'[i].created_by].paired_user_id
          /\ \A c \in InsertedChecklists :
                checklists'[c].shared_with =
                   users[checklists'[c].created_by].paired_user_id
          /\ \A i \in DOMAIN appointments \cap DOMAIN appointments' :
                /\ appointments'[i].shared_with = appointments[i].shared_with
                /\ appointments'[i].created_by = appointments[i].created_by
          /\ \A c \in DOMAIN checklists \cap DOMAIN checklists' :
                /\ checklists'[c].shared_with = checklists[c].shared_with
                /\ checklists'[c].created_by = checklists[c].created_by
       ]_vars
    /\ []SharedRecordsVisible

\* C7 witness: after an unpair and a new pairing of the creator, an appointment
\* and a checklist are still shared with the former partner
C7_Witness ==
    /\ last.op = "pair_users" /\ last.ok
    /\ \E i \in DOMAIN appointments : SharedWithFormerPartner(appointments[i])
    /\ \E c \in DOMAIN checklists : SharedWithFormerPartner(checklists[c])

\* the appointments a user created or is the shared-with user of
OwnOrShared(t) ==
    {i \in DOMAIN appointments :
        /\ IdOfTg(t) # NULL
        /\ \/ appointments[i].created_by = IdOfTg(t)
           \/ appointments[i].shared_with = IdOfTg(t)}

\* C8 as stated: get_user_appointments(X), called as the bot calls it, returns
\* exactly the appointments X created or is the shared-with user of, each once
C8_ListsExactlyOwnAndShared ==
    \A t \in TgIds :
        /\ Listed(get_user_appointments(t, TRUE)) = OwnOrShared(t)
        /\ Len(get_user_appointments(t, TRUE)) = Cardinality(OwnOrShared(t))

\* C8 amended: get_user_appointments(X, upcoming_only) returns exactly the
\* appointments X created or is the shared-with user of, each once, less those
\* whose date-time is before the clock when upcoming_only is set (the default);
\* an appointment created by an unpaired user is in no other user's list
C8_ListsOwnAndSharedUpcoming ==
    \A t \in TgIds, b \in BOOLEAN :
        LET expected == {i \in OwnOrShared(t) :
                            b => appointments[i].appointment_date >= now}
        IN  /\ Listed(get_user_appointments(t, b)) = expected
            /\ Len(get_user_appointments(t, b)) = Cardinality(expected)
            /\ \A i \in Listed(get_user_appointments(t, b)) :
                  appointments[i].shared_with = NULL
                     => appointments[i].created_by = IdOfTg(t)

\* C8 witness: a shared appointment lies in the past and is listed for neither
\* user by default, while an upcoming shared one is listed for both
C8_Witness ==
    \E i \in DOMAIN appointments, j \in DOMAIN appointments :
        /\ appointments[i].shared_with # NULL
        /\ appointments[i].appointment_date < now
        /\ appointments[j].shared_with # NULL
        /\ appointments[j].appointment_date >= now
        /\ \A u \in {appointments[j].created_by, appointments[j].shared_with} :
              /\ j \in Listed(get_user_appointments(TgOfId(u), TRUE))
              /\ i \notin Listed(get_user_appointments(TgOfId(u), TRUE))
              /\ i \in Listed(get_user_appointments(TgOfId(u), FALSE))

-----------------------------------------------------------------------------
(* Properties: checklist items and reminders *)

\* C9: for every checklist item, completed is true iff completed_by is set iff
\* completed_at is set
C9_ToggleAuditPairing ==
    \A i \in DOMAIN items :
        /\ items[i].completed <=> items[i].completed_by # NULL
        /\ items[i].completed <=> items[i].completed_at # <<>>

\* C9 witness: a toggle has just cleared an item that had been completed while
\* another item is completed
C9_Witness ==
    /\ last.op = "toggle_item" /\ last.ok
    /\ last.target \in DOMAIN items
    /\ ~items[last.target].completed
    /\ \E i \in DOMAIN items : items[i].completed

-----------------------------------------------------------------------------
(* Properties: the reminder sweep *)

C12_MarkedAfterAllAttempts ==
    [][
       /\ \A task \in tasks \ tasks' :
             IF task.pc = "creator" /\ SendsToShared(task)
             THEN /\ [task EXCEPT !.pc = "shared"] \in tasks'
                  /\ appointments'[task.appointment].reminder_sent
                        = appointments[task.appointment].reminder_sent
             ELSE appointments'[task.appointment].reminder_sent
       /\ \A task \in tasks' \ tasks :
             task.pc = "creator" => ~appointments[task.appointment].reminder_sent
      ]_vars

\* C12 witness: the send to the shared user has just failed and the reminder is
\* marked sent
C12_Witness ==
    /\ last.op = "send_to_shared" /\ ~last.ok
    /\ last.target \in DOMAIN appointments
    /\ appointments[last.target].reminder_sent
    /\ tasks = {}

\* C13: an appointment committed with a future date-time has its reminder sent
\* and marked no later than its date-time
C13_ReminderBeforeDate ==
    \A i \in DOMAIN appointments :
        appointments[i].appointment_date < now => appointments[i].reminder_sent

-----------------------------------------------------------------------------
(* Properties: permissions on appointments *)

\* C14: update_appointment called by a registered user who is neither the
\* creator nor the shared-with user of the appointment fails with the permission
\* message and leaves the appointments as they were
C14_UpdateNeedsAccess ==
    [][ (/\ last'.op = "update_appointment"
         /\ last'.target \in DOMAIN appointments
         /\ Registered(last'.actor)
         /\ appointments[last'.target].created_by # IdOfTg(last'.actor)
         /\ appointments[last'.target].shared_with # IdOfTg(last'.actor))
        => (/\ ~last'.ok
            /\ last'.msg = "no_permission"
            /\ appointments' = appointments) ]_vars

\* C14 witness: the creator's present partner, who is not the shared-with user
\* of the appointment, has just been refused
C14_Witness ==
    /\ last.op = "update_appointment" /\ last.msg = "no_permission"
    /\ last.target \in DOMAIN appointments
    /\ appointments[last.target].shared_with # NULL
    /\ users[appointments[last.target].created_by].paired_user_id = IdOfTg(last.actor)

\* after a successful delete the appointment is returned by no lookup and no list
DeletedIsGone ==
    (last.op = "delete_appointment" /\ last.ok) =>
        /\ get_appointment_by_id(last.target) = NULL
        /\ \A t \in TgIds, b \in BOOLEAN :
              last.target \notin Listed(get_user_appointments(t, b))

\* C15: delete_appointment succeeds only for the creator; a refused call leaves
\* every appointment stored; a deleted appointment is returned by neither
\* get_appointment_by_id nor any user's get_user_appointments
C15_OnlyCreatorDeletes ==
    /\ [][ last'.op = "delete_appointment" =>
             /\ last'.ok =>
                   /\ last'.target \in DOMAIN appointments
                   /\ appointments[last'.target].created_by = IdOfTg(last'.actor)
                   /\ DOMAIN appointments' = DOMAIN appointments \ {last'.target}
             /\ ~last'.ok => appointments' = appointments ]_vars
    /\ []DeletedIsGone

\* C15 witness: the shared-with user has just been refused, after another
\* appointment was deleted by its creator
C15_Witness ==
    /\ last.op = "delete_appointment" /\ last.msg = "not_creator"
    /\ last.target \in DOMAIN appointments
    /\ appointments[last.target].shared_with = IdOfTg(last.actor)
    /\ nextAppointmentId > Cardinality(DOMAIN appointments) + 1

-----------------------------------------------------------------------------
(* Properties: access to checklists *)

\* the user with telegram id t is the creator or the shared-with user of the
\* checklist c
HasAccess(t, c) ==
    /\ IdOfTg(t) # NULL
    /\ c \in DOMAIN checklists
    /\ IdOfTg(t) \in {checklists[c].created_by, checklists[c].shared_with}

\* C16: toggle_item by a registered user who is neither the creator nor the
\* shared-with user of the item's checklist returns False and leaves the item
\* unchanged
C16_ToggleNeedsAccess ==
    [][ (/\ last'.op = "toggle_item"
         /\ last'.target \in DOMAIN items
         /\ Registered(last'.actor)
         /\ ~HasAccess(last'.actor, items[last'.target].checklist_id))
        => (~last'.ok /\ items' = items) ]_vars

\* C17: every stored item references a stored checklist, so that after a
\* successful delete_checklist no item of the deleted checklist remains
C17_ItemsHaveChecklist ==
    \A i \in DOMAIN items : items[i].checklist_id \in DOMAIN checklists

-----------------------------------------------------------------------------
(* Properties: the confirmation workflow *)

\* the tables a commit writes
Store == <<appointments, checklists, items>>

\* the item ids a step inserts
InsertedItems == (DOMAIN items') \ (DOMAIN items)

\* C18: confirm empties the pending slot of its kind and inserts one record; a
\* confirm with no slot of its kind pending answers "expired" and leaves the
\* store unchanged; cancel empties the slot, inserts nothing, and answers
\* "expired" when there was no slot
C18_CommitOnceByConfirm ==
    [][
       /\ last'.op = "confirm_appointment" =>
             /\ user_data'[last'.actor].pending_appointment = <<>>
             /\ IF user_data[last'.actor].pending_appointment = <<>>
                THEN ~last'.ok /\ last'.msg = "expired" /\ Store' = Store
                ELSE Cardinality(Inserted) = 1 /\ InsertedChecklists = {}
       /\ last'.op = "confirm_checklist" =>
             /\ user_data'[last'.actor].pending_checklist = <<>>
             /\ IF user_data[last'.actor].pending_checklist = <<>>
                THEN ~last'.ok /\ last'.msg = "expired" /\ Store' = Store
                ELSE Cardinality(InsertedChecklists) = 1 /\ Inserted = {}
       /\ last'.op = "cancel_appointment" =>
             /\ user_data'[last'.actor].pending_appointment = <<>>
             /\ Store' = Store
             /\ user_data[last'.actor].pending_appointment = <<>>
                   => last'.msg = "expired"
       /\ last'.op = "cancel_checklist" =>
             /\ user_data'[last'.actor].pending_checklist = <<>>
             /\ Store' = Store
             /\ user_data[last'.actor].pending_checklist = <<>>
                   => last'.msg = "expired"
      ]_vars

\* every user holds at most one pending extraction of each kind
OneSlotPerKind ==
    \A t \in TgIds :
        /\ Len(user_data[t].pending_appointment) <= 1
        /\ Len(user_data[t].pending_checklist) <= 1

C20_TwoPhaseCreate ==
    [][ (Inserted # {} \/ InsertedChecklists # {} \/ InsertedItems # {})
        => last'.op \in {"confirm_appointment", "confirm_checklist"} ]_vars

-----------------------------------------------------------------------------
(* Properties: registration *)

\* registering the last registered user again with the same arguments yields
\* the same users table
RegisterTwiceIsOnce ==
    last.op = "register_user" => add_user(last.actor, last.msg) = users

\* C22: registering a known telegram id adds no row, keeps the row's internal
\* id and partner reference and every other row, and sets the username;
\* registering an unknown one appends an unpaired row; registering twice with
\* the same arguments is the same as registering once
C22_RegistrationUpsert ==
    /\ [][ last'.op = "register_user" =>
             /\ last'.ok
             /\ IF Registered(last'.actor)
                THEN /\ Len(users') = Len(users)
                     /\ users'[IdOfTg(last'.actor)].telegram_id = last'.actor
                     /\ users'[IdOfTg(last'.actor)].paired_user_id
                           = users[IdOfTg(last'.actor)].paired_user_id
                     /\ users'[IdOfTg(last'.actor)].username = last'.msg
                     /\ \A i \in UserIds :
                           i # IdOfTg(last'.actor) => users'[i] = users[i]
                ELSE users' = Append(users, [telegram_id |-> last'.actor,
                                             username |-> last'.msg,
                                             paired_user_id |-> NULL]) ]_vars
    /\ []RegisterTwiceIsOnce

\* C22 witness: a paired user has just registered again under a new username
\* and is still paired
C22_Witness ==
    /\ last.op = "register_user"
    /\ HasPartner(last.actor)
    /\ last.msg # NameOf(last.actor)
    /\ users[IdOfTg(last.actor)].username = last.msg

-----------------------------------------------------------------------------
(* Properties: confirm against the managers' manual create *)

\* C21: confirming a pending extraction succeeds exactly when the manager's
\* manual create would succeed with the pending fields, and leaves the tables
\* as the manual create would leave them
C21_ConfirmEqualsManualCreate ==
    [][
       /\ (/\ last'.op = "confirm_appointment"
           /\ user_data[last'.actor].pending_appointment # <<>>) =>
             LET details == user_data[last'.actor].pending_appointment[1]
                 manual  == create_appointment_manual_message(
                                details.appointment_datetime, last'.actor) = "created"
             IN  /\ last'.ok <=> manual
                 /\ appointments' =
                       IF manual
                       THEN db_create_appointment(details.title, details.description,
                                details.appointment_datetime, details.location,
                                last'.actor)
                       ELSE appointments
       /\ (/\ last'.op = "confirm_checklist"
           /\ user_data[last'.actor].pending_checklist # <<>>) =>
             LET details == user_data[last'.actor].pending_checklist[1]
                 manual  == create_checklist_manual_message(details.items,
                                                            last'.actor) = "created"
             IN  /\ last'.ok <=> manual
                 /\ checklists' =
                       IF manual
                       THEN db_create_checklist(details.title, details.description,
                                                last'.actor)
                       ELSE checklists
                 /\ items' =
                       IF manual
                       THEN add_checklist_items(nextChecklistId, StripAll(details.items))
                       ELSE items
      ]_vars

-----------------------------------------------------------------------------
(* Properties: the creator of an appointment *)

ManagerCreates == {"create_appointment_manual", "create_appointment_from_text"}

\* C23: creating an appointment for an external id that is not registered
\* fails: the repository returns no id, the managers answer success = false and
\* no row is inserted; every inserted row has the actor as creator and the
\* actor's partner at that moment, or nothing, as shared-with user
C23_CreateNeedsRegisteredCreator ==
    [][
       /\ (last'.op \in ManagerCreates /\ ~Registered(last'.actor)) =>
             /\ db_create_appointment_id(last'.actor) = NULL
             /\ ~last'.ok
             /\ appointments' = appointments
       /\ \A i \in Inserted :
             /\ Registered(last'.actor)
             /\ appointments'[i].created_by = IdOfTg(last'.actor)
             /\ appointments'[i].shared_with = PartnerRef(last'.actor)
      ]_vars

C23_Witness ==
    /\ last.op \in ManagerCreates
    /\ ~Registered(last.actor)
    /\ last.msg = "not_saved"
    /\ appointments = <<>>

-----------------------------------------------------------------------------
(* Properties: the order of a listing *)

\* the dates of the rows of a listing, in the order of the listing
DatesOf(l) == [k \in 1..Len(l) |-> appointments[l[k]].appointment_date]

\* C24: get_user_appointments returns the rows in non-decreasing order of
\* date-time, whatever the order of creation; with upcoming_only every row
\* returned has a date-time at or after the clock and no row of the user with
\* such a date-time is left out
C24_ListOrderedAndUpcoming ==
    \A t \in TgIds, b \in BOOLEAN :
        LET l == get_user_appointments(t, b) IN
        /\ \A k \in 1..(Len(l) - 1) : DatesOf(l)[k] <= DatesOf(l)[k + 1]
        /\ b => /\ \A k \in 1..Len(l) : DatesOf(l)[k] >= now
                /\ \A i \in OwnOrShared(t) :
                      appointments[i].appointment_date >= now => i \in Listed(l)

\* C24 witness: the appointment created second is the earlier one and is
\* listed first, both being upcoming
C24_Witness ==
    \E t \in TgIds :
        LET l == get_user_appointments(t, TRUE) IN
        /\ Len(l) = 2
        /\ l[1] > l[2]
        /\ DatesOf(l)[1] < DatesOf(l)[2]

-----------------------------------------------------------------------------
(* Properties: patching an appointment *)

\* the arguments of the update_appointment call of this step
UpdatedId == call'.args[1]
UpdatedBy == call'.args[2]
Supplied  == call'.args[3]

\* the four fields the specification lets a patch change
ClaimedPatchable == {"title", "description", "appointment_date", "location"}

MayPatch(id, t) ==
    /\ id \in AppointmentIds
    /\ Registered(t)
    /\ IdOfTg(t) \in {appointments[id].created_by, appointments[id].shared_with}

\* C29: update_appointment called by the creator or by the snapshotted
\* shared-with user with at least one patchable field succeeds; each supplied
\* patchable field takes the supplied value, every other patchable field and
\* every other appointment stays as it was
C29_UpdateChangesSuppliedFields ==
    [][ (/\ last'.op = "update_appointment"
         /\ MayPatch(UpdatedId, UpdatedBy)
         /\ DOMAIN Supplied \cap ClaimedPatchable # {}) =>
            /\ last'.ok
            /\ \A f \in ClaimedPatchable :
                  appointments'[UpdatedId][f] =
                     IF f \in DOMAIN Supplied THEN Supplied[f]
                     ELSE appointments[UpdatedId][f]
            /\ \A i \in AppointmentIds \ {UpdatedId} :
                  appointments'[i] = appointments[i]
      ]_vars

\* C29 witness: the shared-with user has patched the title alone of an
\* appointment whose other fields are as created
C29_Witness ==
    /\ last.op = "update_appointment" /\ last.ok
    /\ DOMAIN call.args[3] = {"title"}
    /\ appointments[last.target].shared_with = IdOfTg(last.actor)
    /\ appointments[last.target].title = "t2"
    /\ appointments[last.target].description = "d1"
    /\ appointments[last.target].location = "l1"

-----------------------------------------------------------------------------
(* Properties: conflicting appointments *)

\* the calendar day a minute lies in
DayOf(m) == m \div MinutesPerDay

\* the arguments of the get_conflicting_appointments call of this step
When        == MinuteOf(call'.args[2])
CandidateEnd == When + call'.args[3]

-----------------------------------------------------------------------------
(* Properties: the oracle *)

\* the lengths of the twelve months of a common year
MonthLengths == <<31, 28, 31, 30, 31, 30, 31, 31, 30, 31, 30, 31>>

IsLeapYear(y) == (y % 400 = 0) \/ (y % 4 = 0 /\ y % 100 # 0)

\* year, month, day, hour, minute, second name a moment of the calendar
IsCalendarDateTime(dt) ==
    /\ Len(dt) = 6
    /\ dt[2] \in 1..12
    /\ dt[3] >= 1
    /\ dt[3] <= MonthLengths[dt[2]] + (IF dt[2] = 2 /\ IsLeapYear(dt[1]) THEN 1 ELSE 0)
    /\ dt[4] \in 0..23
    /\ dt[5] \in 0..59
    /\ dt[6] = 0

\* the date and the time of a response put together, 12:00 standing in for a
\* time that is not given
Combined(response) ==
    response.date \o (IF response.time = <<>> THEN <<12, 0>> ELSE response.time)
                  \o <<0>>

Combinable(response) ==
    /\ Len(response.date) = 3
    /\ Len(response.time) \in {0, 2}
    /\ IsCalendarDateTime(Combined(response))

\* C26: extract_appointment_details never raises; a model error or a
\* malformed response gives success = false with an error; a response that
\* reports success with a date and time that do not combine into a calendar
\* date-time gives success = false with an error; a result with success = true
\* carries the valid combined appointment_datetime
C26_AppointmentExtractionTotal ==
    call.fn = "extract_appointment_details" =>
        LET response == call.args
            result   == call.result
        IN  /\ ~result.raised
            /\ response.kind # "object" =>
                  result.success = "false" /\ result.error # "null"
            /\ (/\ response.kind = "object" /\ response.success = "true"
                /\ ~Combinable(response)) =>
                  result.success = "false" /\ result.error # "null"
            /\ result.success = "true" =>
                  /\ Combinable(response)
                  /\ result.payload = Combined(response)

\* C26 witness: the model reported success for the 29th of February of a
\* common year and the result is a failure with an error
C26_Witness ==
    /\ call.fn = "extract_appointment_details"
    /\ call.args.kind = "object" /\ call.args.success = "true"
    /\ call.args.date = <<2025, 2, 29>>
    /\ call.args.time = <<23, 59>>
    /\ call.result.success = "false"
    /\ call.result.error = "invalid_date_time"

IsTrimmed(text) ==
    /\ text # <<>>
    /\ text[1] \notin Whitespace
    /\ text[Len(text)] \notin Whitespace \cup Punctuation

\* C27: extract_checklist_details returns success = true only with a list of
\* items that is not empty and has no empty item; every item is trimmed and
\* has no trailing punctuation; when nothing is left after the cleaning the
\* result has success = false
C27_ChecklistItemsCleaned ==
    (call.fn = "extract_checklist_details" /\ call.result.success = "true") =>
        /\ call.result.payload # <<>>
        /\ \A k \in 1..Len(call.result.payload) : IsTrimmed(call.result.payload[k])

-----------------------------------------------------------------------------
(* Properties: exceptions stay inside the managers *)

-----------------------------------------------------------------------------
(* Properties: what a sweep notifies *)

\* the reminder tasks that this step has spawned
Spawned == {task \in tasks' :
               \A old \in tasks : <<old.appointment, old.sweep>>
                                     # <<task.appointment, task.sweep>>}

\* minutes from the clock to the start of an appointment
MinutesUntil(i) == (appointments[i].appointment_date - now) * MinutesPerTick

\* C31: a sweep notifies only for appointments that have reminder_sent = false
\* and a date-time within [now, now + 60 minutes] when the sweep queries the
\* store: every reminder task is spawned by a sweep for such an appointment,
\* and every notification is a step of one of these tasks
C31_SweepNotifiesDueOnly ==
    [][
       /\ \A task \in Spawned :
             /\ sweeps' = sweeps + 1
             /\ task.sweep = sweeps'
             /\ task.pc = "creator"
             /\ task.appointment \in DOMAIN appointments
             /\ ~appointments[task.appointment].reminder_sent
             /\ MinutesUntil(task.appointment) >= 0
             /\ MinutesUntil(task.appointment) <= 60
       /\ (tasks' # tasks /\ sweeps' = sweeps) =>
             \E task \in tasks :
                /\ last'.op \in {"send_to_creator", "send_to_shared"}
                /\ last'.target = task.appointment
                /\ \/ tasks' = tasks \ {task}
                   \/ tasks' = (tasks \ {task}) \cup {[task EXCEPT !.pc = "shared"]}
      ]_vars

\* C31 witness: a sweep has spawned a task for an appointment that starts in
\* exactly 60 minutes
C31_Witness ==
    /\ last.op = "check_and_send_reminders" /\ last.ok
    /\ \E task \in tasks :
          /\ task.sweep = sweeps
          /\ MinutesUntil(task.appointment) = 60

-----------------------------------------------------------------------------
(* Properties: the recipients of a reminder *)

\* the reminder task that takes a step
Acting == tasks \ tasks'

\* the telegram id of a stored user reference, NULL for none
TgOrNull(id) == IF id = NULL THEN NULL ELSE TgOfId(id)

\* C32: one execution of _send_reminder attempts a send to the creator and,
\* only if the appointment has a shared-with user who is not the creator, one
\* to that user; nobody is sent the reminder twice by one execution and nobody
\* else is sent it
C32_CreatorThenDistinctShared ==
    [][ \A task \in Acting :
          LET row     == appointments[task.appointment]
              creator == TgOfId(row.created_by)
              shared  == TgOrNull(row.shared_with)
              second  == [task EXCEPT !.pc = "shared"]
          IN  /\ task.pc = "creator" =>
                    /\ last'.op = "send_to_creator"
                    /\ last'.actor = creator
                    /\ second \in tasks' <=> (shared # NULL /\ shared # creator)
                    /\ tasks' \in {tasks \ {task}, (tasks \ {task}) \cup {second}}
              /\ task.pc = "shared" =>
                    /\ last'.op = "send_to_shared"
                    /\ last'.actor = shared
                    /\ last'.actor # creator
                    /\ tasks' = tasks \ {task}
      ]_vars

\* C32 witness: the second send of an execution has gone to the shared-with
\* user, who is not the creator
C32_Witness ==
    /\ last.op = "send_to_shared"
    /\ last.target \in DOMAIN appointments
    /\ last.actor = TgOrNull(appointments[last.target].shared_with)
    /\ last.actor # TgOfId(appointments[last.target].created_by)
    /\ appointments[last.target].reminder_sent

\* the creator of an appointment has, by now, a partner other than the user
\* the appointment is shared with
PartnerSince(row) ==
    IF users[row.created_by].paired_user_id \in {NULL, row.shared_with, row.created_by}
    THEN NULL
    ELSE TgOfId(users[row.created_by].paired_user_id)

\* C39: the recipients of a reminder are those of the appointment's snapshot:
\* a sweep hands a task the creator and the stored shared-with user whatever
\* the creator's pairing is by then, each send goes to one of the two, and a
\* partner the creator got after the appointment was created is never sent it
C39_RecipientsFollowSnapshot ==
    [][ /\ \A task \in Spawned :
              /\ task.creator_telegram_id =
                    TgOfId(appointments[task.appointment].created_by)
              /\ task.shared_telegram_id =
                    TgOrNull(appointments[task.appointment].shared_with)
        /\ \A task \in Acting :
              /\ last'.actor \in
                    {TgOfId(appointments[task.appointment].created_by),
                     TgOrNull(appointments[task.appointment].shared_with)}
              /\ last'.actor # PartnerSince(appointments[task.appointment])
      ]_vars

\* C39 witness: the creator has unpaired and paired with a third user, and
\* the reminder has gone to the user the appointment was shared with
C39_Witness ==
    /\ last.op = "send_to_shared"
    /\ last.target \in DOMAIN appointments
    /\ PartnerSince(appointments[last.target]) # NULL
    /\ last.actor = TgOrNull(appointments[last.target].shared_with)
    /\ last.actor # PartnerSince(appointments[last.target])

-----------------------------------------------------------------------------
(* Properties: unpairing *)

\* C40: unpair_user(A) for a user A paired with B clears the partner
\* reference of A and of B in one step and returns True; it changes no other
\* user, no other field, no appointment and no checklist; for a user who is
\* not registered or not paired it returns False and changes nothing
C40_UnpairClearsBoth ==
    [][ last'.op = "unpair_user" =>
          LET a == IdOfTg(last'.actor)
              b == PartnerRef(last'.actor)
          IN  /\ appointments' = appointments
              /\ checklists' = checklists
              /\ items' = items
              /\ IF HasPartner(last'.actor)
                 THEN /\ last'.ok
                      /\ DOMAIN users' = DOMAIN users
                      /\ \A i \in UserIds :
                            users'[i] = IF i \in {a, b}
                                        THEN [telegram_id    |-> users[i].telegram_id,
                                              username       |-> users[i].username,
                                              paired_user_id |-> NULL]
                                        ELSE users[i]
                 ELSE /\ ~last'.ok
                      /\ users' = users
      ]_vars

\* C40 witness: a user whose appointment and checklist are shared with the
\* partner has unpaired, with a third user registered
C40_Witness ==
    /\ last.op = "unpair_user" /\ last.ok
    /\ Len(users) = 3
    /\ \A i \in UserIds : users[i].paired_user_id = NULL
    /\ \E i \in DOMAIN appointments : appointments[i].shared_with # NULL
    /\ \E c \in DOMAIN checklists : checklists[c].shared_with # NULL

-----------------------------------------------------------------------------
(* Properties: creating a checklist from text *)

\* the items this step has stored for the checklist id this step hands out
StoredForNew ==
    {i \in DOMAIN items' \ DOMAIN items : items'[i].checklist_id = nextChecklistId}

\* C33: create_checklist_from_text tolerates INSERTs of single items that
\* fail: it reports success exactly when at least one item of the new
\* checklist was stored, and items_count is then the number of items stored
\* for it, the items whose INSERT did not fail
C33_ItemsCountIsStored ==
    [][ last'.op = "create_checklist_from_text" =>
          LET details == call'.args[1]
              failed  == call'.args[3]
          IN  /\ call'.result.success = last'.ok
              /\ last'.ok =>
                    /\ nextChecklistId \in DOMAIN checklists'
                    /\ call'.result.items_count = Cardinality(StoredForNew)
                    /\ call'.result.items_count >= 1
                    /\ Cardinality(StoredForNew) = Len(details.items) - Cardinality(failed)
                    /\ {i \in DOMAIN items' : items'[i].checklist_id = nextChecklistId}
                          = StoredForNew
              /\ (details.success /\ Registered(last'.actor)) =>
                    (last'.ok <=> StoredForNew # {})
      ]_vars

\* C33 witness: of two items one INSERT failed and the checklist was created
\* with the other
C33_Witness ==
    /\ last.op = "create_checklist_from_text" /\ last.ok
    /\ Len(call.args[1].items) = 2
    /\ Cardinality(call.args[3]) = 1
    /\ call.result.items_count = 1
    /\ Cardinality({i \in DOMAIN items : items[i].checklist_id = last.target}) = 1

\* C37: a create_checklist_from_text that returns success = false, because
\* the extraction failed or because no item was stored, leaves the store as it
\* was: no checklist row of that call remains, so no checklist without items
\* comes from a failed create
C37_FailedCreateLeavesNoRow ==
    [][ (last'.op = "create_checklist_from_text" /\ ~last'.ok) =>
          /\ checklists' = checklists
          /\ items' = items
      ]_vars

-----------------------------------------------------------------------------
(* Properties: who may change a checklist *)

\* the actor of this step may modify the checklist of the item it names
MayModifyItem ==
    /\ last'.target \in DOMAIN items
    /\ HasAccess(last'.actor, items[last'.target].checklist_id)

\* C34: add_item_to_checklist and remove_item_from_checklist succeed only for
\* the creator of the checklist and for the user it was shared with when it
\* was created; for another registered user, an unregistered one, a missing
\* checklist or a missing item they return success = false and no item of any
\* checklist changes
C34_ItemsNeedAccess ==
    [][ /\ last'.op = "add_item_to_checklist" =>
              IF HasAccess(last'.actor, last'.target)
              THEN last'.ok =>
                     /\ DOMAIN items \subseteq DOMAIN items'
                     /\ \A i \in DOMAIN items : items'[i] = items[i]
                     /\ \A i \in DOMAIN items' \ DOMAIN items :
                           items'[i].checklist_id = last'.target
              ELSE ~last'.ok /\ items' = items
        /\ last'.op = "remove_item_from_checklist" =>
              IF MayModifyItem
              THEN last'.ok =>
                     /\ DOMAIN items' = DOMAIN items \ {last'.target}
                     /\ \A i \in DOMAIN items' : items'[i] = items[i]
              ELSE ~last'.ok /\ items' = items
      ]_vars

\* C34 witness: the creator's present partner, with whom the checklist is not
\* shared, was refused the removal of an item
C34_Witness ==
    /\ last.op = "remove_item_from_checklist"
    /\ ~last.ok /\ last.msg = "no_permission"
    /\ last.target \in DOMAIN items
    /\ LET row == checklists[items[last.target].checklist_id] IN
          /\ users[row.created_by].paired_user_id = IdOfTg(last.actor)
          /\ row.shared_with # IdOfTg(last.actor)

\* C35: delete_checklist succeeds only for the creator of the checklist; when
\* the shared-with user or anybody else calls it, it returns success = false
\* and the checklist and all its items stay stored
C35_OnlyCreatorDeletesChecklist ==
    [][ last'.op = "delete_checklist" =>
          IF /\ last'.target \in DOMAIN checklists
             /\ Registered(last'.actor)
             /\ checklists[last'.target].created_by = IdOfTg(last'.actor)
          THEN last'.ok => last'.target \notin DOMAIN checklists'
          ELSE /\ ~last'.ok
               /\ checklists' = checklists
               /\ items' = items
      ]_vars

\* C35 witness: the shared-with user was refused the deletion of a checklist
\* that has an item
C35_Witness ==
    /\ last.op = "delete_checklist"
    /\ ~last.ok /\ last.msg = "not_creator"
    /\ last.target \in DOMAIN checklists
    /\ checklists[last.target].shared_with = IdOfTg(last.actor)
    /\ \E i \in DOMAIN items : items[i].checklist_id = last.target

-----------------------------------------------------------------------------
(* Properties: the bot and unpaired users *)

\* C36: with debug mode off, no message or callback of a user who is not
\* paired stores an appointment or a checklist: every step of the bot that
\* changes the tables is a step of a paired user
C36_UnpairedPersistsNothing ==
    [][ (~debug_mode /\ Store' # Store) => HasPartner(last'.actor) ]_vars

-----------------------------------------------------------------------------
(* Properties: a failed extraction in the guided flow *)

\* C38: when the extraction of the awaited input fails, nothing is stored,
\* waiting_for is cleared and no pending slot is written: a pending
\* extraction the user held from an earlier input is as it was, still there
\* for a confirm or a cancel, and no other user's data changes
C38_FailedInputKeepsPending ==
    [][ (last'.op = "process_pending_input" /\ ~last'.ok) =>
          /\ Store' = Store
          /\ user_data[last'.actor].waiting_for # ""
          /\ user_data' = [user_data EXCEPT ![last'.actor].waiting_for = ""]
      ]_vars

\* C38 witness: a user who held a pending appointment asked for a new one,
\* the extraction failed, and the pending appointment is still held
C38_Witness ==
    /\ last.op = "process_pending_input" /\ ~last.ok
    /\ last.msg = "appointment"
    /\ user_data[last.actor].waiting_for = ""
    /\ user_data[last.actor].pending_appointment # <<>>
    /\ Store = <<<<>>, <<>>, <<>>>>

=============================================================================
